---- MODULE Spec2Model ----
(***************************************************************************)
(* Trajectory planner of ActiveVibrationSuppression                        *)
(* (source/virtualmachine.py): Machine.create_path and the time samplers,  *)
(* the background loading of a file by the main window (source/mainui.py)  *)
(* and the G-code line parser (source/gcode.py).                           *)
(*                                                                         *)
(* Python floats are modelled as fixed-point numbers: the integer n stands  *)
(* for the real n / Scale, every product, quotient and square root rounds   *)
(* to the nearest representable number, as IEEE arithmetic does.  The      *)
(* inputs are chosen so that all distances and unit vectors are exact.     *)
(***************************************************************************)
EXTENDS Integers, Sequences, FiniteSets, TLC

\* ------------------------------------------------------------------ bounds
Scale == 1000          \* fixed-point units per 1.0
MaxRecords == 4        \* longest instruction sequence given to the planner alone
MaxSampledRecords == 2 \* longest instruction sequence of a sampled Machine
MaxRuns == 2           \* create_path calls on one Machine object
MaxSamples == 3        \* sample calls made on one sampler object
MaxSampledSegs == 1    \* leading sub-segments whose middle and end are sampled
ChainLen == 30         \* geometric braking moves of the long straight run
MaxTasks == 2          \* background tasks started in one session of the window
MaxLines == 2          \* parse_line calls made on one GCode object
MaxLayerRecords == 4   \* longest instruction sequence of a Machine with layers
MaxProfileCalls == 4   \* calls made on one profile connector

\* -------------------------------------------------------------- arithmetic
Inf == 2147483647      \* float('inf'): larger than every speed

Min(a, b) == IF a <= b THEN a ELSE b
Max(a, b) == IF a >= b THEN a ELSE b
Abs(a) == IF a >= 0 THEN a ELSE -a

\* n / d rounded to the nearest integer (d > 0), symmetric around zero
Rnd(n, d) == IF n >= 0 THEN (2 * n + d) \div (2 * d)
                       ELSE -((2 * (-n) + d) \div (2 * d))

\* x * y for x, y >= 0 as ProdQ * Scale + ProdR, without forming the product
ProdQ(x, y) ==
    (x \div Scale) * (y \div Scale) * Scale
    + (x \div Scale) * (y % Scale) + (x % Scale) * (y \div Scale)
    + ((x % Scale) * (y % Scale)) \div Scale
ProdR(x, y) == ((x % Scale) * (y % Scale)) % Scale

\* a * b and a / b on fixed-point numbers (b # 0)
Mul(a, b) ==
    (IF (a >= 0) = (b >= 0) THEN 1 ELSE -1)
    * (ProdQ(Abs(a), Abs(b)) + Rnd(ProdR(Abs(a), Abs(b)), Scale))
Div(a, b) == IF b > 0 THEN Rnd(a * Scale, b) ELSE Rnd((-a) * Scale, -b)

\* largest r in lo..hi with r * r <= n
RECURSIVE ISqrtIn(_, _, _)
ISqrtIn(n, lo, hi) ==
    IF lo >= hi THEN lo
    ELSE LET mid == (lo + hi + 1) \div 2
         IN  IF mid * mid <= n THEN ISqrtIn(n, mid, hi)
                               ELSE ISqrtIn(n, lo, mid - 1)

\* x * y < q * Scale + r, and <=, for numbers too large to multiply
ProdLess(x, y, q, r) ==
    ProdQ(x, y) < q \/ (ProdQ(x, y) = q /\ ProdR(x, y) < r)
ProdLeq(x, y, q, r) ==
    ProdQ(x, y) < q \/ (ProdQ(x, y) = q /\ ProdR(x, y) <= r)

\* largest s in lo..hi with s * s <= q * Scale + r
RECURSIVE ISqrtWide(_, _, _, _)
ISqrtWide(q, r, lo, hi) ==
    IF lo >= hi THEN lo
    ELSE LET mid == (lo + hi + 1) \div 2
         IN  IF ProdLeq(mid, mid, q, r) THEN ISqrtWide(q, r, mid, hi)
                                        ELSE ISqrtWide(q, r, lo, mid - 1)

\* the square root of q * Scale + r, rounded to nearest
SqrtWide(q, r) ==
    LET s == ISqrtWide(q, r, 0, 1000000)
    IN  IF ProdLess(s, s + 1, q, r) THEN s + 1 ELSE s

\* math.sqrt on fixed-point numbers (a >= 0), rounded to nearest
Sqrt(a) ==
    IF a <= 2147483
    THEN LET n == a * Scale
             r == ISqrtIn(n, 0, 46340)
         IN  IF n - r * r > r THEN r + 1 ELSE r
    ELSE SqrtWide(a, 0)

\* math.sqrt(a ** 2 + b ** 2), rounded to nearest
Hypot(a, b) ==
    IF Abs(a) <= 32767 /\ Abs(b) <= 32767
    THEN LET n == a * a + b * b
             r == ISqrtIn(n, 0, 46340)
         IN  IF n - r * r > r THEN r + 1 ELSE r
    ELSE LET rsum == ProdR(Abs(a), Abs(a)) + ProdR(Abs(b), Abs(b))
         IN  SqrtWide(ProdQ(Abs(a), Abs(a)) + ProdQ(Abs(b), Abs(b)) + rsum \div Scale,
                      rsum % Scale)

\* 0.5 * a
Half(a) == Rnd(a, 2)

\* ------------------------------------------------------------ gcode input
\* A GLine is a function from the words present on the line to their values.
has_word(gline, w) == w \in DOMAIN gline
get_word(gline, w) == gline[w]

\* ------------------------------------------------------------ PathSegment
\* PathSegment.__init__: acceleration_segments holds the ids of the
\* AccelerationSegment objects constructed on this segment, in construction
\* order; gline is the index of the source record (0 for None).
PathSegment(x, y, nominal_speed, gline) ==
    [ gline |-> gline, acceleration_segments |-> << >>,
      x |-> x, y |-> y, nominal_speed |-> nominal_speed,
      entry_speed |-> 0, max_entry_speed |-> 0, max_reached_speed |-> 0,
      distance |-> 0, x_distance |-> 0, y_distance |-> 0,
      x_unit_vec |-> 0, y_unit_vec |-> 0 ]

\* -------------------------------------------------- create_path_segments
\* The loop's local variables before the first record.
create_path_segments_locals ==
    [ nominal_speed |-> 0, x |-> 0, y |-> 0,
      z |-> 0, z_old |-> 0, z_changed |-> FALSE,
      i |-> 0, i_layer_start |-> 0 ]

\* an iteration that takes absent X, Y and F words as 0 and keeps no layers
create_path_segments_step_nonmodal(gline, glineIndex, st, segs, lays, create_layers) ==
    LET word(w) == IF has_word(gline, w) THEN get_word(gline, w) ELSE 0
    IN  [ st |-> [st EXCEPT !.i = @ + 1],
          segs |-> Append(segs, PathSegment(word("X"), word("Y"),
                                            Rnd(word("F"), 60), glineIndex)),
          lays |-> lays ]

\* One iteration of the loop over self.gcode: st holds the locals, segs and
\* lays are self.path_segments and self.layers.
create_path_segments_step(gline, glineIndex, st, segs, lays, create_layers) ==
    LET confirm == /\ st.z_changed
                   /\ has_word(gline, "G")
                   /\ get_word(gline, "G") \in {1, 2, 3}
        lays1 == IF confirm THEN Append(lays, st.i_layer_start) ELSE lays
        st1 == IF confirm
               THEN [st EXCEPT !.i_layer_start = st.i + 1,
                               !.z_old = st.z,
                               !.z_changed = FALSE]
               ELSE st
        st2 == [st1 EXCEPT
                  !.nominal_speed = IF has_word(gline, "F")
                                    THEN Rnd(get_word(gline, "F"), 60)
                                    ELSE @,
                  !.x = IF has_word(gline, "X") THEN get_word(gline, "X") ELSE @,
                  !.y = IF has_word(gline, "Y") THEN get_word(gline, "Y") ELSE @]
        st3 == IF has_word(gline, "Z") /\ create_layers
               THEN [st2 EXCEPT !.z = get_word(gline, "Z"),
                                !.z_changed = (get_word(gline, "Z") # st2.z_old)]
               ELSE st2
    IN  [ st |-> [st3 EXCEPT !.i = @ + 1],
          segs |-> Append(segs, PathSegment(st3.x, st3.y, st3.nominal_speed, glineIndex)),
          lays |-> lays1 ]

\* the for loop: st.i records have been read
RECURSIVE create_path_segments_loop(_, _, _, _, _)
create_path_segments_loop(gc, st, segs, lays, create_layers) ==
    IF st.i >= Len(gc) THEN [segs |-> segs, lays |-> lays]
    ELSE LET r == create_path_segments_step(gc[st.i + 1], st.i + 1, st, segs, lays,
                                            create_layers)
         IN  create_path_segments_loop(gc, r.st, r.segs, r.lays, create_layers)

\* Machine.create_path_segments: appends to the lists the Machine already holds.
create_path_segments(gc, segs, lays, create_layers) ==
    create_path_segments_loop(gc, create_path_segments_locals, segs, lays,
                              create_layers)

\* ------------------------------------------------ calculate_path_segments
\* a junction limit that treats a straight junction as a full stop
max_junction_speed_straight_min(junction_cos_theta, min_speed, acceleration, junction_deviation) ==
    IF junction_cos_theta * 1000000 > 999999 * Scale
    THEN Mul(min_speed, min_speed)
    ELSE min_speed

\* a junction limit whose full-turn speed is the minimum speed, not its square
max_junction_speed_unsquared(junction_cos_theta, min_speed, acceleration, junction_deviation) ==
    IF junction_cos_theta * 1000000 > 999999 * Scale
    THEN min_speed
    ELSE IF junction_cos_theta * 1000000 < -(999999 * Scale)
    THEN Inf
    ELSE min_speed

\* maximum junction speed from the cosine of the junction angle
max_junction_speed(junction_cos_theta, min_speed, acceleration, junction_deviation) ==
    IF junction_cos_theta * 1000000 > 999999 * Scale
    THEN Mul(min_speed, min_speed)
    ELSE IF junction_cos_theta * 1000000 < -(999999 * Scale)
    THEN Inf
    ELSE LET sin_theta_d2 == Sqrt(Half(Scale - junction_cos_theta))
             prelim == Sqrt(Div(Mul(Mul(acceleration, junction_deviation), sin_theta_d2),
                                Scale - sin_theta_d2))
         IN  Max(min_speed, prelim)

\* first loop, body for segment i (i >= 2): geometry and junction limit
pass1_step(segs, i, min_speed, acceleration, junction_deviation) ==
    LET seg == segs[i]
        prev_seg == segs[i - 1]
        x_distance == seg.x - prev_seg.x
        y_distance == seg.y - prev_seg.y
        distance == Hypot(x_distance, y_distance)
        x_unit_vec == Div(x_distance, distance)
        y_unit_vec == Div(y_distance, distance)
        junction_cos_theta == (-Mul(x_unit_vec, prev_seg.x_unit_vec))
                              - Mul(y_unit_vec, prev_seg.y_unit_vec)
        mjs == max_junction_speed(junction_cos_theta, min_speed, acceleration,
                                  junction_deviation)
        max_entry_speed == Min(seg.nominal_speed, Min(prev_seg.nominal_speed, mjs))
    IN  IF distance # 0
        THEN [segs EXCEPT ![i] = [seg EXCEPT
                 !.x_distance = x_distance, !.y_distance = y_distance,
                 !.distance = distance,
                 !.x_unit_vec = x_unit_vec, !.y_unit_vec = y_unit_vec,
                 !.max_entry_speed = max_entry_speed,
                 !.entry_speed = max_entry_speed]]
        ELSE [segs EXCEPT ![i] = [seg EXCEPT
                 !.x_distance = x_distance, !.y_distance = y_distance,
                 !.distance = distance,
                 !.max_entry_speed = 0,
                 !.entry_speed = 0]]

RECURSIVE pass1(_, _, _, _, _)
pass1(segs, i, min_speed, acceleration, junction_deviation) ==
    IF i > Len(segs) THEN segs
    ELSE pass1(pass1_step(segs, i, min_speed, acceleration, junction_deviation),
               i + 1, min_speed, acceleration, junction_deviation)

\* greatest speed change the acceleration allows over a distance, as the
\* forward and the reverse pass compute it
speed_gain(acceleration, distance) == Sqrt(Mul(2 * acceleration, distance))

\* the forward pass without the cap at the junction limit
pass2_step_uncapped(segs, i, acceleration) ==
    LET seg == segs[i]
        next_seg == segs[i + 1]
        max_exit_speed == seg.entry_speed + speed_gain(acceleration, seg.distance)
    IN  [segs EXCEPT ![i + 1] = [next_seg EXCEPT !.entry_speed = max_exit_speed]]

\* forward pass, body for segment i (i <= Len - 1): limits the next entry speed
pass2_step(segs, i, acceleration) ==
    LET seg == segs[i]
        next_seg == segs[i + 1]
        max_exit_speed == seg.entry_speed + speed_gain(acceleration, seg.distance)
    IN  [segs EXCEPT ![i + 1] = [next_seg EXCEPT
            !.entry_speed = Min(next_seg.max_entry_speed, max_exit_speed)]]

RECURSIVE pass2(_, _, _)
pass2(segs, i, acceleration) ==
    IF i > Len(segs) - 1 THEN segs
    ELSE pass2(pass2_step(segs, i, acceleration), i + 1, acceleration)

\* reverse pass, body for segment i (i >= 2); next_entry_speed is the entry
\* speed of next_seg, 0 for the all-zero PathSegment after the last one
pass3_step(segs, i, next_entry_speed, acceleration) ==
    LET seg == segs[i]
        max_entry_speed == next_entry_speed + speed_gain(acceleration, seg.distance)
    IN  IF max_entry_speed < seg.entry_speed
        THEN [segs EXCEPT ![i] = [seg EXCEPT !.max_entry_speed = max_entry_speed,
                                             !.entry_speed = max_entry_speed]]
        ELSE segs

\* the reverse loop, from segment i down to segment 2 (the test against
\* Len(segs) never fires: it makes TLC evaluate segs before it recurses)
RECURSIVE pass3(_, _, _, _)
pass3(segs, i, next_entry_speed, acceleration) ==
    IF i < 2 \/ i > Len(segs) THEN segs
    ELSE LET s == pass3_step(segs, i, next_entry_speed, acceleration)
         IN  pass3(s, i - 1, s[i].entry_speed, acceleration)

\* Machine.calculate_path_segments
calculate_path_segments(segs, min_speed, acceleration, junction_deviation) ==
    pass3(pass2(pass1(segs, 2, min_speed, acceleration, junction_deviation),
                1, acceleration),
          Len(segs), 0, acceleration)

\* ---------------------------------------------------- AccelerationSegment
\* AccelerationSegment.__init__ (path_seg is the index of the parent in
\* path_segments; the constructor also appends the new object to the
\* parent's acceleration_segments, see NewAccSeg)
AccelerationSegment(id, path_seg) ==
    [ id |-> id, path_seg |-> path_seg, x |-> 0, y |-> 0,
      acceleration |-> 0, x_acceleration |-> 0, y_acceleration |-> 0,
      distance |-> 0, duration |-> 0 ]

\* self.path_seg.acceleration_segments.append(self)
NewAccSeg(segs, i, id) ==
    [segs EXCEPT ![i].acceleration_segments = Append(@, id)]

\* AccelerationSegment.get_accelerations
get_accelerations(seg) == <<seg.acceleration, seg.x_acceleration, seg.y_acceleration>>

\* Machine.vectorize
vectorize(path_seg, value) ==
    <<Mul(path_seg.x_unit_vec, value), Mul(path_seg.y_unit_vec, value)>>

\* ---------------------------------------- calculate_acceleration_segments
\* the speed the segment would reach accelerating from its entry speed and
\* braking to the next entry speed with no nominal speed in the way
max_possible_speed(path_seg, next_entry_speed, acceleration) ==
    Sqrt(Mul(acceleration, path_seg.distance)
         + Half(Mul(path_seg.entry_speed, path_seg.entry_speed)
                + Mul(next_entry_speed, next_entry_speed)))

\* entry speed of the segment after segment i, 0 after the last one
next_entry_speed_of(segs, i) ==
    IF i < Len(segs) THEN segs[i + 1].entry_speed ELSE 0

\* a plateau test with the comparison the wrong way round
has_plateau_reversed(maximum_possible_speed, nominal_speed) ==
    maximum_possible_speed < nominal_speed

\* a profile that builds the cruise sub-segment for every moving segment
has_plateau_always(maximum_possible_speed, nominal_speed) == TRUE

\* the cruise sub-segment is built when the segment could go faster than
\* its nominal speed
has_plateau(maximum_possible_speed, nominal_speed) ==
    maximum_possible_speed > nominal_speed

\* a ramp distance with the acceleration term not halved
ramp_distance_unhalved(v0, t, a) == Mul(v0, t) + Mul(a, Mul(t, t))

\* distance covered in time t from speed v0 under acceleration a
ramp_distance(v0, t, a) == Mul(v0, t) + Mul(Half(a), Mul(t, t))

\* Loop body for path segment i.  nid is the number of AccelerationSegment
\* objects constructed so far.  exc is "ZeroDivisionError" when the division
\* by the nominal speed raises; the objects constructed before the raise
\* stay registered on the path segment, nothing is appended to accs.
profile_step(segs, accs, i, nid, acceleration) ==
    LET path_seg == segs[i]
        next_entry_speed == next_entry_speed_of(segs, i)
        maximum_possible_speed ==
            max_possible_speed(path_seg, next_entry_speed, acceleration)
        limiting_speed == Min(path_seg.nominal_speed, maximum_possible_speed)
        acc_duration == Div(limiting_speed - path_seg.entry_speed, acceleration)
        dcc_duration == Div(limiting_speed - next_entry_speed, acceleration)
        acc_vec == vectorize(path_seg, acceleration)
        acc_distance == ramp_distance(path_seg.entry_speed, acc_duration, acceleration)
        d_acc_ratio == Div(acc_distance, path_seg.distance) - Scale
        acc_seg == [AccelerationSegment(nid + 1, i) EXCEPT
                      !.duration = acc_duration,
                      !.acceleration = acceleration,
                      !.x_acceleration = acc_vec[1],
                      !.y_acceleration = acc_vec[2],
                      !.distance = acc_distance,
                      !.x = path_seg.x + Mul(d_acc_ratio, path_seg.x_distance),
                      !.y = path_seg.y + Mul(d_acc_ratio, path_seg.y_distance)]
        dcc_vec == vectorize(path_seg, -acceleration)
        dcc_distance == ramp_distance(next_entry_speed, dcc_duration, acceleration)
        dcc_seg == [AccelerationSegment(nid + 2, i) EXCEPT
                      !.duration = dcc_duration,
                      !.acceleration = -acceleration,
                      !.x_acceleration = dcc_vec[1],
                      !.y_acceleration = dcc_vec[2],
                      !.distance = dcc_distance,
                      !.x = path_seg.x,
                      !.y = path_seg.y]
        plt_distance == path_seg.distance - acc_distance - dcc_distance
        d_dcc_ratio == Div(dcc_distance, path_seg.distance)
        plt_seg == [AccelerationSegment(nid + 3, i) EXCEPT
                      !.distance = plt_distance,
                      !.duration = Div(plt_distance, path_seg.nominal_speed),
                      !.x = path_seg.x - Mul(path_seg.x_distance, d_dcc_ratio),
                      !.y = path_seg.y - Mul(path_seg.y_distance, d_dcc_ratio)]
        segs2 == [NewAccSeg(NewAccSeg(segs, i, nid + 1), i, nid + 2)
                    EXCEPT ![i].max_reached_speed = limiting_speed]
    IN  IF path_seg.distance = 0
        THEN [segs |-> segs, accs |-> accs, nid |-> nid, exc |-> "none"]
        ELSE IF ~has_plateau(maximum_possible_speed, path_seg.nominal_speed)
        THEN [segs |-> segs2, accs |-> accs \o <<acc_seg, dcc_seg>>,
              nid |-> nid + 2, exc |-> "none"]
        ELSE IF path_seg.nominal_speed = 0
        THEN [segs |-> NewAccSeg(segs2, i, nid + 3), accs |-> accs,
              nid |-> nid + 3, exc |-> "ZeroDivisionError"]
        ELSE [segs |-> NewAccSeg(segs2, i, nid + 3),
              accs |-> accs \o <<acc_seg, plt_seg, dcc_seg>>,
              nid |-> nid + 3, exc |-> "none"]

RECURSIVE profile_loop(_, _, _, _, _)
profile_loop(segs, accs, i, nid, acceleration) ==
    IF i > Len(segs) THEN [segs |-> segs, accs |-> accs, exc |-> "none"]
    ELSE LET r == profile_step(segs, accs, i, nid, acceleration)
         IN  IF r.exc # "none" THEN [segs |-> r.segs, accs |-> r.accs, exc |-> r.exc]
             ELSE profile_loop(r.segs, r.accs, i + 1, r.nid, acceleration)

\* number of AccelerationSegment objects the path segments have registered
RECURSIVE CountAccSegs(_, _)
CountAccSegs(segs, i) ==
    IF i > Len(segs) THEN 0
    ELSE Len(segs[i].acceleration_segments) + CountAccSegs(segs, i + 1)

\* Machine.calculate_acceleration_segments
calculate_acceleration_segments(segs, accs, acceleration) ==
    profile_loop(segs, accs, 1, CountAccSegs(segs, 1), acceleration)

\* --------------------------------------------------------------- samplers
\* A sampler object.  cls is "None" while no sampler exists.  seg_iter is a
\* Python list iterator, over Machine.acceleration_segments itself (end is
\* -1: the list's length is read at every next()) or over a slice of it
\* that ends with element end.  pos is the index in acceleration_segments of
\* the element consumed last, exhausted is set once it has raised
\* StopIteration.  current_seg is the index in acceleration_segments of the
\* referenced AccelerationSegment.
NoSampler ==
    [ cls |-> "None", coord_name |-> "", coord_value |-> 0,
      seg_iter |-> [pos |-> 0, exhausted |-> TRUE, end |-> -1], current_seg |-> 0,
      current_seg_start_time |-> 0, current_seg_end_time |-> 0, current_time |-> 0 ]

\* next(seg_iter) on a list that now has n elements
iter_next(it, n) ==
    IF it.exhausted \/ it.pos >= (IF it.end < 0 THEN n ELSE it.end)
    THEN [stop |-> TRUE, item |-> 0, it |-> [it EXCEPT !.exhausted = TRUE]]
    ELSE [stop |-> FALSE, item |-> it.pos + 1, it |-> [it EXCEPT !.pos = @ + 1]]

\* ValueFromTime.__init__ of class cls; exc is "StopIteration" when the
\* first next() finds no element
ValueFromTime_init(cls, accs) ==
    LET n == iter_next([pos |-> 0, exhausted |-> FALSE, end |-> -1], Len(accs))
    IN  IF n.stop THEN [s |-> NoSampler, exc |-> "StopIteration"]
        ELSE [s |-> [NoSampler EXCEPT !.cls = cls, !.seg_iter = n.it,
                        !.current_seg = n.item,
                        !.current_seg_start_time = 0,
                        !.current_seg_end_time = accs[n.item].duration,
                        !.current_time = 0],
              exc |-> "none"]

\* the comparison that decides whether the cursor has to leave the current
\* sub-segment, in ValueFromTime and in PositionFromTime
value_must_advance(end_time, time) == end_time < time
position_inside(end_time, time) == time < end_time

\* the monotonicity check of both __getitem__ methods
is_backwards(s, time) == time < s.current_time

\* ValueFromTime.__getitem__: the while loop advancing the cursor
RECURSIVE value_advance(_, _, _)
value_advance(s, accs, time) ==
    IF ~value_must_advance(s.current_seg_end_time, time)
    THEN [s |-> s, exc |-> "none"]
    ELSE LET n == iter_next(s.seg_iter, Len(accs))
         IN  IF n.stop
             THEN [s |-> [s EXCEPT !.seg_iter = n.it], exc |-> "IndexError"]
             ELSE value_advance(
                    [s EXCEPT !.seg_iter = n.it,
                              !.current_seg = n.item,
                              !.current_seg_start_time = s.current_seg_end_time,
                              !.current_seg_end_time = @ + accs[n.item].duration],
                    accs, time)

\* speed on the current sub-segment at the given time
\* (SpeedFromTime._return_value and the scalar part of PositionFromTime._get_speed)
segment_speed(s, accs, segs, time) ==
    LET current_seg == accs[s.current_seg]
        path_seg == segs[current_seg.path_seg]
        t_acc == time - s.current_seg_start_time
        v_in == IF current_seg.acceleration > 0 THEN path_seg.entry_speed
                                                ELSE path_seg.max_reached_speed
    IN  IF current_seg.acceleration = 0
        THEN path_seg.max_reached_speed
        ELSE v_in + Mul(current_seg.acceleration, t_acc)

\* AccelerationFromTime._return_value: calls get_accelerations and returns
\* nothing; a returned value is a tuple, None is the empty tuple
AccelerationFromTime_return_value(s, accs) == << >>

\* _return_value of the sampler's class
return_value(s, accs, segs, time) ==
    IF s.cls = "SpeedFromTime" THEN <<segment_speed(s, accs, segs, time)>>
    ELSE AccelerationFromTime_return_value(s, accs)

\* ValueFromTime.__getitem__
ValueFromTime_getitem(s, accs, segs, time) ==
    IF is_backwards(s, time)
    THEN [s |-> s, exc |-> "ValueError", value |-> << >>]
    ELSE LET adv == value_advance(s, accs, time)
             s2 == [adv.s EXCEPT !.current_time = time]
         IN  IF adv.exc # "none"
             THEN [s |-> adv.s, exc |-> adv.exc, value |-> << >>]
             ELSE [s |-> s2, exc |-> "none",
                   value |-> return_value(s2, accs, segs, time)]

\* PositionFromTime.__init__ with layer_number None: exc is "IndexError"
\* when path_segments is empty, "StopIteration" when there is no sub-segment
PositionFromTime_init(coordinate, accs, segs) ==
    LET n == iter_next([pos |-> 0, exhausted |-> FALSE, end |-> -1], Len(accs))
    IN  IF Len(segs) = 0 THEN [s |-> NoSampler, exc |-> "IndexError"]
        ELSE IF n.stop THEN [s |-> NoSampler, exc |-> "StopIteration"]
        ELSE [s |-> [NoSampler EXCEPT !.cls = "PositionFromTime",
                        !.coord_name = coordinate,
                        !.coord_value = IF coordinate = "x" THEN segs[1].x
                                                            ELSE segs[1].y,
                        !.seg_iter = n.it,
                        !.current_seg = n.item,
                        !.current_seg_start_time = 0,
                        !.current_seg_end_time = accs[n.item].duration,
                        !.current_time = 0],
              exc |-> "none"]

\* PositionFromTime._get_speed: speed along the sampler's axis
get_speed(s, accs, segs, time) ==
    LET speed_vect == vectorize(segs[accs[s.current_seg].path_seg],
                                segment_speed(s, accs, segs, time))
    IN  IF s.coord_name = "x" THEN speed_vect[1] ELSE speed_vect[2]

\* displacement along the axis over delta_t from current_time
position_dist(s, accs, segs, delta_t) ==
    LET coord_acc == IF s.coord_name = "x" THEN accs[s.current_seg].x_acceleration
                                           ELSE accs[s.current_seg].y_acceleration
    IN  Mul(Half(coord_acc), Mul(delta_t, delta_t))
        + Mul(get_speed(s, accs, segs, s.current_time), delta_t)

\* PositionFromTime.__getitem__: the while True loop
RECURSIVE position_loop(_, _, _, _)
position_loop(s, accs, segs, time) ==
    IF position_inside(s.current_seg_end_time, time)
    THEN LET v == s.coord_value + position_dist(s, accs, segs, time - s.current_time)
         IN  [s |-> [s EXCEPT !.coord_value = v, !.current_time = time],
              exc |-> "none", value |-> <<v>>]
    ELSE LET delta_t == s.current_seg_end_time - s.current_time
             s2 == [s EXCEPT !.coord_value = @ + position_dist(s, accs, segs, delta_t),
                             !.current_time = @ + delta_t]
             n == iter_next(s.seg_iter, Len(accs))
         IN  IF n.stop
             THEN [s |-> [s2 EXCEPT !.seg_iter = n.it], exc |-> "IndexError",
                   value |-> << >>]
             ELSE position_loop(
                    [s2 EXCEPT !.seg_iter = n.it,
                               !.current_seg = n.item,
                               !.current_seg_start_time = s.current_seg_end_time,
                               !.current_seg_end_time = @ + accs[n.item].duration],
                    accs, segs, time)

\* PositionFromTime.__getitem__
PositionFromTime_getitem(s, accs, segs, time) ==
    IF is_backwards(s, time)
    THEN [s |-> s, exc |-> "ValueError", value |-> << >>]
    ELSE position_loop(s, accs, segs, time)

\* sampler[time] for the sampler's class
getitem(s, accs, segs, time) ==
    IF s.cls = "PositionFromTime" THEN PositionFromTime_getitem(s, accs, segs, time)
    ELSE ValueFromTime_getitem(s, accs, segs, time)

\* --------------------------------------------------- get_path_coordinates
\* a Python list index: lst[i] for -len <= i < len, IndexError otherwise
py_index_ok(lst, i) == -Len(lst) <= i /\ i < Len(lst)
py_index(lst, i) == IF i >= 0 THEN lst[i + 1] ELSE lst[Len(lst) + i + 1]

\* lst[start:end] for start, end >= 0; end = -1 stands for None
py_slice(lst, start, end) ==
    LET hi == IF end = -1 THEN Len(lst) ELSE Min(end, Len(lst))
    IN  IF start >= hi THEN << >> ELSE SubSeq(lst, start + 1, hi)

\* layer_number: << >> for None, <<n>> for the layer index n
None == << >>

\* Machine.get_path_coordinates
get_path_coordinates(layer_number, lays, segs) ==
    LET n == layer_number[1]
        last == n = Len(lays) - 1
        raises == /\ layer_number # None
                  /\ \/ ~py_index_ok(lays, n)
                     \/ ~last /\ ~py_index_ok(lays, n + 1)
        start == IF layer_number = None THEN 0 ELSE py_index(lays, n)
        end == IF layer_number = None \/ last THEN -1 ELSE py_index(lays, n + 1)
        part == py_slice(segs, start, end)
    IN  IF raises THEN [exc |-> "IndexError", coords_x |-> << >>, coords_y |-> << >>]
        ELSE [exc |-> "none",
              coords_x |-> [k \in 1..Len(part) |-> part[k].x],
              coords_y |-> [k \in 1..Len(part) |-> part[k].y]]

\* the values of the layer slider after load_data has called
\* setMaximum(len(layers) - 1) on a slider with minimum 0 and value 0: with
\* no layer the maximum is -1, and QSlider either keeps the value 0 or moves
\* range and value to -1
layerSlider_values(lays) ==
    IF lays = << >> THEN {-1, 0} ELSE 0..(Len(lays) - 1)

\* ------------------------------------------ PositionFromTime of one layer
\* lst[i] raises no IndexError and the path segment has a sub-segment
has_acceleration_segment(segs, i) ==
    py_index_ok(segs, i) /\ py_index(segs, i).acceleration_segments # << >>

\* the first while loop: i_start is raised until path_segments[i_start] has
\* a sub-segment.  Past the end of the list every index raises IndexError,
\* which the loop catches: it never ends then (the result is -1).
RECURSIVE first_acc_seg_scan(_, _)
first_acc_seg_scan(segs, i_start) ==
    IF has_acceleration_segment(segs, i_start) THEN i_start
    ELSE IF i_start >= Len(segs) THEN -1
    ELSE first_acc_seg_scan(segs, i_start + 1)

\* the second while loop: i_end is lowered until path_segments[i_end] has a
\* sub-segment; the assert fails (the result is -1) when it gets below i_start
RECURSIVE last_acc_seg_scan(_, _, _)
last_acc_seg_scan(segs, i_end, i_start) ==
    IF has_acceleration_segment(segs, i_end) THEN i_end
    ELSE IF i_end - 1 >= i_start THEN last_acc_seg_scan(segs, i_end - 1, i_start)
    ELSE -1

\* list.index: Python index of the sub-segment object id in the flat list,
\* -1 for ValueError
list_index(accs, id) ==
    IF \E k \in 1..Len(accs) : accs[k].id = id
    THEN (CHOOSE k \in 1..Len(accs) :
              accs[k].id = id /\ \A j \in 1..(k - 1) : accs[j].id # id) - 1
    ELSE -1

\* acceleration_segments[i_acc_start: i_acc_end] ends before the element
\* with Python index i_acc_end
scope_end(i_acc_end) == i_acc_end

\* PositionFromTime.__init__ with a layer number (None for no layer).  exc is
\* the exception raised, or "NonTermination" when the constructor never
\* returns.
PositionFromTime_layer_init(coordinate, layer_number, lays, accs, segs) ==
    IF lays = << >> \/ layer_number = None
    THEN PositionFromTime_init(coordinate, accs, segs)
    ELSE
    LET raised(exc) == [s |-> NoSampler, exc |-> exc]
        n == layer_number[1]
        i_start == py_index(lays, n)
        i_end == IF n = Len(lays) - 1 THEN Len(segs) - 1
                 ELSE py_index(lays, n + 1)
        before == py_index(segs, i_start - 1)
        i_first == first_acc_seg_scan(segs, i_start)
        i_last == last_acc_seg_scan(segs, i_end, i_first)
        first_acc_seg == py_index(py_index(segs, i_first).acceleration_segments, 0)
        last_acc_seg == py_index(py_index(segs, i_last).acceleration_segments, -1)
        i_acc_start == list_index(accs, first_acc_seg)
        i_acc_end == list_index(accs, last_acc_seg)
        nx == iter_next([pos |-> i_acc_start, exhausted |-> FALSE,
                        end |-> scope_end(i_acc_end)], Len(accs))
    IN  IF ~py_index_ok(lays, n) THEN raised("IndexError")
        ELSE IF n # Len(lays) - 1 /\ ~py_index_ok(lays, n + 1)
        THEN raised("IndexError")
        ELSE IF ~py_index_ok(segs, i_start - 1) THEN raised("IndexError")
        ELSE IF i_first < 0 THEN raised("NonTermination")
        ELSE IF i_last < 0 THEN raised("AssertionError")
        ELSE IF i_acc_start < 0 \/ i_acc_end < 0 THEN raised("ValueError")
        ELSE IF nx.stop THEN raised("StopIteration")
        ELSE [s |-> [NoSampler EXCEPT !.cls = "PositionFromTime",
                        !.coord_name = coordinate,
                        !.coord_value = IF coordinate = "x" THEN before.x
                                                            ELSE before.y,
                        !.seg_iter = nx.it,
                        !.current_seg = nx.item,
                        !.current_seg_start_time = 0,
                        !.current_seg_end_time = accs[nx.item].duration,
                        !.current_time = 0],
              exc |-> "none"]

\* rounding allowance of the fixed-point distances: one hundredth of a mm
DistanceTolerance == Scale \div 100

\* ------------------------------------------------------------------ state
VARIABLES
    gcode,                  \* Machine.gcode: the instruction records
    profilecon,             \* the settings store read by update_settings
    path_segments,          \* Machine.path_segments
    acceleration_segments,  \* Machine.acceleration_segments
    layers,                 \* Machine.layers
    MIN_SPEED, ACCELERATION, JUNCTION_DEVIATION,   \* Machine settings fields
    runs,                   \* create_path calls made on this Machine
    create_path_exc,        \* exception raised by the last create_path call
    sampler,                \* the sampler object in use
    ret,                    \* the last sampler call: its time, what it raised or
                            \* returned, what ref raised or returned, and whether
                            \* the sampler was asked non-decreasing times so far
    last_ok,                \* time of the sampler's last successful sample, -1 if none
    samples,                \* sample calls made on the sampler
    ref,                    \* a sampler of the same class that made only the
                            \* calls that succeed on it
    mainwindow,             \* MainWindow: machine, gcode, backgroundTask,
                            \* postBackgroundTask, layerSlider enabled
    ui_pc,                  \* where the UI thread is: idle or inside a modal dialog
    tasks,                  \* the BackgroundTask threads started so far
    events,                 \* finished signals queued for the UI thread
    ui_read,                \* the Machine the UI thread read last, and its state
    parser,                 \* the GCode object: its options and its commands
    parsed,                 \* the last parse_line call and its outcome
    profileconnector,       \* the JsonProfilesConnector and the file it saves to
    profile_call,           \* the last call on the connector and what it raised
    profile_calls,          \* calls made on the connector
    deleted                 \* profiles deleted and not added again since

machine_vars == <<path_segments, acceleration_segments, layers,
                  MIN_SPEED, ACCELERATION, JUNCTION_DEVIATION, runs, create_path_exc>>
sampler_vars == <<sampler, ret, last_ok, samples, ref>>
ui_vars == <<mainwindow, ui_pc, tasks, events, ui_read>>
parser_vars == <<parser, parsed>>
profile_vars == <<profileconnector, profile_call, profile_calls, deleted>>
vars == <<gcode, profilecon, machine_vars, sampler_vars, ui_vars, parser_vars, profile_vars>>

\* Machine(gcode, profilecon): create_layers keeps its default
CREATE_LAYERS == TRUE

\* ----------------------------------------------------------------- inputs
\* Instruction records.  Coordinates in mm, feed rates in mm/min.  All
\* reachable positions lie in {(0,0), (4,0), (8,0), (4,3)}, whose pairwise
\* distances are whole numbers, so that unit vectors are exact.
mm(n) == n * Scale

GLines ==
    { [w \in {"G", "X", "Y"} |-> CASE w = "G" -> 1 [] w = "X" -> mm(8) [] w = "Y" -> 0],
      [w \in {"G", "X", "Y", "F"} |->
           CASE w = "G" -> 1 [] w = "X" -> mm(4) [] w = "Y" -> 0 [] w = "F" -> mm(120)],
      [w \in {"G", "X", "Y", "F"} |->
           CASE w = "G" -> 1 [] w = "X" -> mm(4) [] w = "Y" -> mm(3) [] w = "F" -> mm(60)],
      [w \in {"G", "X", "Y", "F"} |->
           CASE w = "G" -> 0 [] w = "X" -> 0 [] w = "Y" -> 0 [] w = "F" -> mm(240)],
      [w \in {"G", "X"} |-> CASE w = "G" -> 1 [] w = "X" -> mm(4)],
      [w \in {"G", "Z"} |-> CASE w = "G" -> 0 [] w = "Z" -> mm(1)] }

ProgramsUpTo(n) == UNION { [1..k -> GLines] : k \in 0..n }

\* A long straight run along x that brakes over many short moves: 20 mm at
\* 6 mm/s, a move that speeds up towards ChainTopSpeed, then ChainLen + 1
\* moves, each short enough for the reverse pass to bind, the entry speeds
\* falling by the factor 8/9 from move to move.
ChainTopSpeed == mm(12)

RECURSIVE ChainSpeed(_)
ChainSpeed(i) == IF i = 0 THEN ChainTopSpeed ELSE (ChainSpeed(i - 1) * 8) \div 9

\* length of the i-th braking move: the distance over which the speed gain
\* equals the intended fall of the entry speed
ChainMove(i) ==
    LET fall == ChainSpeed(i - 1) - (IF i > ChainLen THEN 0 ELSE ChainSpeed(i))
    IN  Max(1, (fall * fall) \div (2 * Scale))

RECURSIVE ChainX(_)
ChainX(i) ==
    IF i = 0 THEN mm(20) + (ChainTopSpeed * ChainTopSpeed) \div (8 * Scale)
    ELSE ChainX(i - 1) + ChainMove(i)

BrakingChain ==
    [k \in 1..(ChainLen + 4) |->
        IF k = 1 THEN [w \in {"G", "X", "F"} |->
                          CASE w = "G" -> 1 [] w = "X" -> 0 [] w = "F" -> mm(360)]
        ELSE IF k = 2 THEN [w \in {"G", "X"} |->
                          CASE w = "G" -> 1 [] w = "X" -> mm(20)]
        ELSE IF k = 3 THEN [w \in {"G", "X", "F"} |->
                          CASE w = "G" -> 1 [] w = "X" -> ChainX(0) [] w = "F" -> mm(1200)]
        ELSE [w \in {"G", "X"} |-> CASE w = "G" -> 1 [] w = "X" -> ChainX(k - 3)]]

\* settings: min_speed [mm/s], acceleration [mm/s^2], junction_dev [mm]
Profiles ==
    { [min_speed |-> Scale \div 2, acceleration |-> mm(1), junction_dev |-> Scale \div 2],
      [min_speed |-> mm(2), acceleration |-> mm(2), junction_dev |-> Scale \div 20] }

\* A right-angle corner: from (0, 0) to (100, 0) to (100, 100) at 50 mm/s
\* (F3000), with min_speed 10, acceleration 1000 and junction_dev 0.05
CornerProgram ==
    << [w \in {"G", "X", "Y", "F"} |->
           CASE w = "G" -> 1 [] w = "X" -> 0 [] w = "Y" -> 0 [] w = "F" -> mm(3000)],
       [w \in {"G", "X", "Y"} |->
           CASE w = "G" -> 1 [] w = "X" -> mm(100) [] w = "Y" -> 0],
       [w \in {"G", "X", "Y"} |->
           CASE w = "G" -> 1 [] w = "X" -> mm(100) [] w = "Y" -> mm(100)] >>

\* A short lead-in on a straight line: 0.5 mm, then 4 mm, then 8 mm along x
\* at 4 mm/s (F240)
LeadInProgram ==
    << [w \in {"G", "X", "Y", "F"} |->
           CASE w = "G" -> 1 [] w = "X" -> 0 [] w = "Y" -> 0 [] w = "F" -> mm(240)],
       [w \in {"G", "X"} |-> CASE w = "G" -> 1 [] w = "X" -> Scale \div 2],
       [w \in {"G", "X"} |-> CASE w = "G" -> 1 [] w = "X" -> mm(4) + Scale \div 2],
       [w \in {"G", "X"} |-> CASE w = "G" -> 1 [] w = "X" -> mm(12) + Scale \div 2] >>

CornerProfile ==
    [min_speed |-> mm(10), acceleration |-> mm(1000), junction_dev |-> Scale \div 20]

\* the profile a new installation starts with
default_profile ==
    [min_speed |-> mm(10), acceleration |-> mm(2500), junction_dev |-> Scale \div 20]

\* JsonSettingsConnector.get_value
get_value(pc, key) == pc[key]

\* ------------------------------------------------- JsonProfilesConnector
\* An OrderedDict of profiles is a sequence of entries [name, obj].  obj is
\* the reference of the profile's dictionary in `objects`, so that _data and
\* a value of _all_profiles can be one and the same dictionary, as they are
\* after `self._data = self._all_profiles[self._profile]`; 0 stands for None.
EmptyDict == [k \in {} |-> 0]

list_keys(d) == [i \in 1..Len(d) |-> d[i].name]

has_key(d, name) == \E i \in 1..Len(d) : d[i].name = name

dict_get(d, name) == d[CHOOSE i \in 1..Len(d) : d[i].name = name].obj

\* d[name] = obj: an existing key keeps its place, a new key goes last
dict_set(d, name, obj) == IF has_key(d, name) THEN [i \in 1..Len(d) |-> IF d[i].name = name THEN [name |-> name, obj |-> obj] ELSE d[i]] ELSE Append(d, [name |-> name, obj |-> obj])

\* del d[name]
dict_del(d, name) == SelectSeq(d, LAMBDA e : e.name # name)

\* JsonProfilesConnector.list_profiles
list_profiles(c) == list_keys(c._all_profiles)

\* `self._profile and self._data`: the empty string, None and the empty
\* dictionary are false
profile_and_data(c) == c._profile # "" /\ c._data # 0 /\ DOMAIN c.objects[c._data] # {}

\* JsonProfilesConnector.sync_to_all
sync_to_all(c) == IF profile_and_data(c) THEN [c EXCEPT !._all_profiles = dict_set(@, c._profile, c._data)] ELSE c

\* JsonProfilesConnector.select_profile
select_profile(c, profile) ==
    LET s == sync_to_all(c)
    IN  IF has_key(s._all_profiles, profile)
        THEN [c |-> [s EXCEPT !._profile = profile,
                              !._data = dict_get(s._all_profiles, profile)],
              exc |-> "none"]
        ELSE [c |-> s, exc |-> "ValueError"]

\* JsonProfilesConnector.add_profile: the name is bound to a new, empty
\* dictionary
add_profile(c, name) ==
    [c |-> [c EXCEPT !.objects = Append(@, EmptyDict),
                     !._all_profiles = dict_set(@, name, Len(c.objects) + 1)],
     exc |-> "none"]

\* JsonProfilesConnector.delete_current_profile
delete_current_profile(c) ==
    IF has_key(c._all_profiles, c._profile)
    THEN [c |-> [c EXCEPT !._all_profiles = dict_del(@, c._profile)], exc |-> "none"]
    ELSE [c |-> c, exc |-> "KeyError"]

\* json.dump(self._all_profiles, json_conf): the file holds every profile by
\* value
json_dump(c) ==
    [i \in 1..Len(c._all_profiles) |->
        [name |-> c._all_profiles[i].name, data |-> c.objects[c._all_profiles[i].obj]]]

\* JsonProfilesConnector.save_to_file
save_to_file(c) ==
    LET s == sync_to_all(c)
    IN  [c |-> [s EXCEPT !.json_conf = json_dump(s)], exc |-> "none"]

\* JsonSettingsConnector.set_value: self._data[key] = value changes the
\* dictionary _data refers to
set_value(c, key, value) ==
    IF c._data = 0
    THEN [c |-> c, exc |-> "TypeError"]
    ELSE [c |-> [c EXCEPT !.objects[c._data] =
                     [k \in (DOMAIN @) \cup {key} |-> IF k = key THEN value ELSE @[k]]],
          exc |-> "none"]

\* JsonProfilesConnector.check_configuration on profiles that have every key
\* of the defaults and no other: each profile is selected in turn, then the
\* profile selected before is selected again
RECURSIVE select_each(_, _, _)
select_each(c, names, k) == IF k > Len(names) THEN c ELSE select_each(select_profile(c, names[k]).c, names, k + 1)

check_configuration(c) == select_profile(select_each(c, list_profiles(c), 1), c._profile).c

\* JsonSettingsConnector.read_file: every profile of the file becomes a
\* dictionary of its own
read_file(file) == [i \in 1..Len(file) |-> [name |-> file[i].name, obj |-> i]]

\* JsonProfilesConnector.__init__
JsonProfilesConnector(file) ==
    LET c0 == [_profile |-> "", _data |-> 0, _all_profiles |-> read_file(file),
               objects |-> [i \in 1..Len(file) |-> file[i].data], json_conf |-> file]
        c1 == select_profile(c0, list_profiles(c0)[1]).c
    IN  save_to_file(check_configuration(c1)).c

\* profiles.conf: the profile "Default" and a second profile
ProfilesConf ==
    << [name |-> "Default", data |-> default_profile],
       [name |-> "B", data |-> [default_profile EXCEPT !.min_speed = mm(20)]] >>

NoProfileCall == [op |-> "none", profile |-> "", exc |-> "none"]

InitProfileConnector ==
    /\ profileconnector = JsonProfilesConnector(ProfilesConf)
    /\ profile_call = NoProfileCall
    /\ profile_calls = 0
    /\ deleted = {}

\* ------------------------------------------------------------------- Init
\* Machine.__init__; no sampler exists yet
NoCall == [op |-> "none", time |-> 0, exc |-> "none", value |-> << >>,
           ref_exc |-> "none", ref_value |-> << >>, nondecreasing |-> TRUE,
           coord_name |-> "", layer_number |-> << >>]

InitMachine ==
    /\ path_segments = << >>
    /\ acceleration_segments = << >>
    /\ layers = << >>
    /\ MIN_SPEED = 0
    /\ ACCELERATION = 0
    /\ JUNCTION_DEVIATION = 0
    /\ runs = 0
    /\ create_path_exc = "none"
    /\ sampler = NoSampler
    /\ ret = NoCall
    /\ last_ok = -1
    /\ samples = 0
    /\ ref = NoSampler

\* MainWindow.__init__: no file, no task (0 stands for None); nothing read yet
NoRead == [by |-> "none", machine |-> "none"]

InitMainWindow ==
    /\ mainwindow = [machine |-> 0, gcode |-> 0, backgroundTask |-> 0,
                     postBackgroundTask |-> 0, layerSliderEnabled |-> FALSE]
    /\ ui_pc = "idle"
    /\ tasks = << >>
    /\ events = << >>
    /\ ui_read = NoRead

\* GCode.__init__
GCode(keep_invalid, ignore_invalid, keep_raw) ==
    [keep_invalid |-> keep_invalid, ignore_invalid |-> ignore_invalid,
     keep_raw |-> keep_raw, commands |-> << >>]

NotParsed == [line |-> << >>, exc |-> "none", rejected |-> FALSE, before |-> 0,
              calls |-> 0]

InitGCode ==
    /\ parser = GCode(FALSE, FALSE, FALSE)
    /\ parsed = NotParsed

Init ==
    /\ gcode \in ProgramsUpTo(MaxSampledRecords) \cup {BrakingChain}
    /\ profilecon \in Profiles
    /\ InitMachine /\ InitMainWindow /\ InitGCode /\ InitProfileConnector

InitPlanner ==
    /\ \/ gcode \in ProgramsUpTo(MaxRecords) \cup {LeadInProgram}
          /\ profilecon \in Profiles
       \/ gcode = CornerProgram /\ profilecon = CornerProfile
    /\ InitMachine /\ InitMainWindow /\ InitGCode /\ InitProfileConnector

\* ------------------------------------------------------------ create_path
\* Machine.create_path: update_settings, create_path_segments,
\* calculate_path_segments, calculate_acceleration_segments.  When the last
\* raises, what the call has written so far stays.
create_path ==
    /\ runs < MaxRuns
    /\ LET ms == get_value(profilecon, "min_speed")
           a  == get_value(profilecon, "acceleration")
           jd == get_value(profilecon, "junction_dev")
           built == create_path_segments(gcode, path_segments, layers, CREATE_LAYERS)
           solved == calculate_path_segments(built.segs, ms, a, jd)
           profiled == calculate_acceleration_segments(solved, acceleration_segments, a)
       IN  /\ MIN_SPEED' = ms
           /\ ACCELERATION' = a
           /\ JUNCTION_DEVIATION' = jd
           /\ layers' = built.lays
           /\ path_segments' = profiled.segs
           /\ acceleration_segments' = profiled.accs
           /\ create_path_exc' = profiled.exc
    /\ runs' = runs + 1
    /\ UNCHANGED <<profile_vars, gcode, profilecon, sampler_vars, ui_vars, parser_vars>>

\* ---------------------------------------------------------- sampler calls
\* the constructor's outcome: a raising constructor leaves no new object
Constructed(r) ==
    /\ sampler' = r.s
    /\ ref' = r.s
    /\ last_ok' = -1
    /\ samples' = 0
    /\ ret' = [NoCall EXCEPT !.op = "init", !.exc = r.exc]
    /\ UNCHANGED <<profile_vars, gcode, profilecon, machine_vars, ui_vars, parser_vars>>

\* AccelerationFromTime(machine) or SpeedFromTime(machine)
NewValueFromTime ==
    \E cls \in {"AccelerationFromTime", "SpeedFromTime"} :
        Constructed(ValueFromTime_init(cls, acceleration_segments))

\* PositionFromTime(machine, coordinate)
NewPositionFromTime ==
    \E coordinate \in {"x", "y"} :
        Constructed(PositionFromTime_init(coordinate, acceleration_segments,
                                          path_segments))

\* summed duration of sub-segments lo..hi (by halving)
RECURSIVE Duration(_, _, _)
Duration(accs, lo, hi) ==
    IF lo > hi THEN 0
    ELSE IF lo = hi THEN accs[lo].duration
    ELSE LET mid == (lo + hi) \div 2
         IN  Duration(accs, lo, mid) + Duration(accs, mid + 1, hi)

\* time at which sub-segment k ends, counted from the first sub-segment
EndTime(accs, k) == Duration(accs, 1, k)

TotalDuration(accs) == EndTime(accs, Len(accs))

\* index of the sub-segment that ends latest, the last such one (the last
\* sub-segment when no end time lies before an earlier one); 0 when empty
LatestSeg(accs) ==
    LET ends == [k \in 1..Len(accs) |-> EndTime(accs, k)]
    IN  IF Len(accs) = 0 THEN 0
        ELSE CHOOSE k \in 1..Len(accs) :
                 \A j \in 1..Len(accs) :
                     ends[j] < ends[k] \/ (ends[j] = ends[k] /\ j <= k)

\* the sub-segments whose boundaries are probed
SampledSegs(accs) ==
    (1..Min(MaxSampledSegs, Len(accs)))
    \cup (IF Len(accs) = 0 THEN {} ELSE {Len(accs), LatestSeg(accs)})

\* the times asked for: zero, one second past the end of the motion, and
\* the middle, the last instant and the end of each probed sub-segment
SampleTimes(accs) ==
    {0, TotalDuration(accs) + Scale}
    \cup { EndTime(accs, k) : k \in SampledSegs(accs) }
    \cup { EndTime(accs, k) - 1 : k \in SampledSegs(accs) }
    \cup { (EndTime(accs, k - 1) + EndTime(accs, k)) \div 2 : k \in SampledSegs(accs) }

\* sampler[time]; ref is asked for the same time
Sample ==
    /\ sampler.cls # "None"
    /\ samples < MaxSamples
    /\ samples' = samples + 1
    /\ \E time \in SampleTimes(acceleration_segments) :
         LET r == getitem(sampler, acceleration_segments, path_segments, time)
             q == getitem(ref, acceleration_segments, path_segments, time)
         IN  /\ sampler' = r.s
             /\ ret' = [op |-> "getitem", time |-> time, exc |-> r.exc,
                        value |-> r.value, ref_exc |-> q.exc, ref_value |-> q.value,
                        nondecreasing |-> /\ ret.nondecreasing
                                          /\ ret.op = "getitem" => ret.time <= time,
                        coord_name |-> ret.coord_name,
                        layer_number |-> ret.layer_number]
             /\ last_ok' = IF r.exc = "none" THEN time ELSE last_ok
             /\ ref' = IF q.exc = "none" THEN q.s ELSE ref
    /\ UNCHANGED <<profile_vars, gcode, profilecon, machine_vars, ui_vars, parser_vars>>

\* ------------------------------------------------------------------- Next
\* As in MainWindow.load_data, a sampled Machine is planned once, before any
\* sampler is built on it.
NoSamplerYet == sampler.cls = "None" /\ ret.op = "none"

Next ==
    \/ NoSamplerYet /\ runs = 0 /\ create_path
    \/ NewValueFromTime
    \/ NewPositionFromTime
    \/ Sample

Spec == Init /\ [][Next]_vars

\* the planner alone, on longer instruction sequences
NextPlanner == create_path

SpecPlanner == InitPlanner /\ [][NextPlanner]_vars

\* ------------------------------------------------------------------ layers
\* records that change the height, move at the height in force, or do both
LayerLines ==
    { [w \in {"G", "Z"} |-> CASE w = "G" -> 0 [] w = "Z" -> mm(1)],
      [w \in {"G", "Z"} |-> CASE w = "G" -> 0 [] w = "Z" -> 0],
      [w \in {"G", "X", "Y", "F"} |->
           CASE w = "G" -> 1 [] w = "X" -> mm(4) [] w = "Y" -> 0 [] w = "F" -> mm(240)],
      [w \in {"G", "X", "Y", "F"} |->
           CASE w = "G" -> 1 [] w = "X" -> mm(4) [] w = "Y" -> mm(3) [] w = "F" -> mm(60)],
      [w \in {"G", "X", "Y", "Z", "F"} |->
           CASE w = "G" -> 1 [] w = "X" -> mm(8) [] w = "Y" -> 0 [] w = "Z" -> 0
             [] w = "F" -> mm(240)] }

LayerPrograms == UNION { [1..k -> LayerLines] : k \in 0..MaxLayerRecords }

InitLayers ==
    /\ gcode \in LayerPrograms
    /\ profilecon \in Profiles
    /\ InitMachine /\ InitMainWindow /\ InitGCode /\ InitProfileConnector

\* the layer numbers of the Machine: None and every index of layers
layer_numbers(lays) == {None} \cup { <<k>> : k \in 0..(Len(lays) - 1) }

\* PositionFromTime(machine, coordinate, layer_number); a constructor that
\* raises or never returns leaves no new object
NewLayerPositionFromTime ==
    \E coordinate \in {"x", "y"}, layer_number \in layer_numbers(layers) :
        LET r == PositionFromTime_layer_init(coordinate, layer_number, layers,
                                             acceleration_segments, path_segments)
        IN  /\ sampler' = r.s
            /\ ref' = r.s
            /\ last_ok' = -1
            /\ samples' = 0
            /\ ret' = [NoCall EXCEPT !.op = "init", !.exc = r.exc,
                                     !.coord_name = coordinate,
                                     !.layer_number = layer_number]
            /\ UNCHANGED <<profile_vars, gcode, profilecon, machine_vars, ui_vars, parser_vars>>

\* a Machine planned once, then layer-scoped position samplers built on it
NextLayers ==
    \/ runs = 0 /\ create_path
    \/ runs = 1 /\ NewLayerPositionFromTime

SpecLayers == InitLayers /\ [][NextLayers]_vars

\* ------------------------------------------- calls on the profile connector
\* the names a caller passes: the two profiles of the file and a new one
ProfileNames == {"Default", "B", "N"}

InitProfiles ==
    /\ gcode = << >>
    /\ profilecon = default_profile
    /\ InitMachine /\ InitMainWindow /\ InitGCode /\ InitProfileConnector

profiles_idle == UNCHANGED <<gcode, profilecon, machine_vars, sampler_vars, ui_vars, parser_vars>>

select_profile_call ==
    /\ profile_calls < MaxProfileCalls
    /\ \E profile \in ProfileNames :
          LET r == select_profile(profileconnector, profile)
          IN  /\ profileconnector' = r.c
              /\ profile_call' = [op |-> "select_profile", profile |-> profile, exc |-> r.exc]
    /\ profile_calls' = profile_calls + 1
    /\ UNCHANGED deleted
    /\ profiles_idle

add_profile_call ==
    /\ profile_calls < MaxProfileCalls
    /\ \E name \in ProfileNames :
          LET r == add_profile(profileconnector, name)
          IN  /\ profileconnector' = r.c
              /\ profile_call' = [op |-> "add_profile", profile |-> name, exc |-> r.exc]
              /\ deleted' = deleted \ {name}
    /\ profile_calls' = profile_calls + 1
    /\ profiles_idle

delete_current_profile_call ==
    /\ profile_calls < MaxProfileCalls
    /\ LET r == delete_current_profile(profileconnector)
       IN  /\ profileconnector' = r.c
           /\ profile_call' = [op |-> "delete_current_profile",
                               profile |-> profileconnector._profile, exc |-> r.exc]
           /\ deleted' = IF r.exc = "none" THEN deleted \cup {profileconnector._profile}
                         ELSE deleted
    /\ profile_calls' = profile_calls + 1
    /\ profiles_idle

save_to_file_call ==
    /\ profile_calls < MaxProfileCalls
    /\ LET r == save_to_file(profileconnector)
       IN  /\ profileconnector' = r.c
           /\ profile_call' = [op |-> "save_to_file", profile |-> "", exc |-> r.exc]
    /\ profile_calls' = profile_calls + 1
    /\ UNCHANGED deleted
    /\ profiles_idle

set_value_call ==
    /\ profile_calls < MaxProfileCalls
    /\ \E value \in {mm(10), mm(20)} :
          LET r == set_value(profileconnector, "min_speed", value)
          IN  /\ profileconnector' = r.c
              /\ profile_call' = [op |-> "set_value", profile |-> "", exc |-> r.exc]
    /\ profile_calls' = profile_calls + 1
    /\ UNCHANGED deleted
    /\ profiles_idle

\* SettingsDialog.delete_profile, answered Yes.  The selectors were filled
\* from list_profiles(); after removeItem their current text is one of the
\* items left, or empty when none is left.
delete_profile ==
    /\ profile_calls < MaxProfileCalls
    /\ LET d == delete_current_profile(profileconnector)
           s == save_to_file(d.c).c
           items == { list_profiles(profileconnector)[i] :
                         i \in 1..Len(list_profiles(profileconnector)) }
                    \ {profileconnector._profile}
       IN  IF d.exc # "none"
           THEN /\ profileconnector' = d.c
                /\ profile_call' = [op |-> "delete_profile",
                                    profile |-> profileconnector._profile, exc |-> d.exc]
                /\ UNCHANGED deleted
           ELSE \E currentText \in (IF items = {} THEN {""} ELSE items) :
                   LET r == select_profile(s, currentText)
                   IN  /\ profileconnector' = r.c
                       /\ profile_call' = [op |-> "delete_profile",
                                           profile |-> profileconnector._profile,
                                           exc |-> r.exc]
                       /\ deleted' = deleted \cup {profileconnector._profile}
    /\ profile_calls' = profile_calls + 1
    /\ profiles_idle

NextProfiles ==
    \/ select_profile_call
    \/ add_profile_call
    \/ delete_current_profile_call
    \/ save_to_file_call
    \/ set_value_call
    \/ delete_profile

SpecProfiles == InitProfiles /\ [][NextProfiles]_vars

\* ------------------------------------------------------------------ GCode
\* A str is a sequence of one-character strings.
\* the letters of the model's alphabet: <<lower case, upper case>>
Letters == { <<"g", "G">>, <<"m", "M">>, <<"t", "T">>, <<"x", "X">>,
             <<"y", "Y">>, <<"c", "C">> }
Digits == <<"0", "1", "2", "3", "4", "5", "6", "7", "8", "9">>

\* str.isalpha, str.isspace (line breaks and tabs are gone when it is asked),
\* str.upper and str.lower on one character
isalpha(c) == \E l \in Letters : c = l[1] \/ c = l[2]
isspace(c) == c = " "
upper(c) == IF \E l \in Letters : c = l[1]
            THEN (CHOOSE l \in Letters : c = l[1])[2] ELSE c
lower(c) == IF \E l \in Letters : c = l[2]
            THEN (CHOOSE l \in Letters : c = l[2])[1] ELSE c
str_upper(str) == [k \in 1..Len(str) |-> upper(str[k])]

\* str.strip(" "); int() and float() strip white space the same way
RECURSIVE lstrip(_)
lstrip(str) == IF str # << >> /\ Head(str) = " " THEN lstrip(Tail(str)) ELSE str
RECURSIVE rstrip(_)
rstrip(str) == IF str # << >> /\ str[Len(str)] = " "
               THEN rstrip(SubSeq(str, 1, Len(str) - 1)) ELSE str
strip(str) == rstrip(lstrip(str))

isdigit(c) == \E d \in 1..10 : Digits[d] = c
digit(c) == (CHOOSE d \in 1..10 : Digits[d] = c) - 1
isdigits(str) == \A k \in 1..Len(str) : isdigit(str[k])

RECURSIVE digits_value(_)
digits_value(str) ==
    IF str = << >> THEN 0
    ELSE digits_value(SubSeq(str, 1, Len(str) - 1)) * 10 + digit(str[Len(str)])

RECURSIVE power_of_ten(_)
power_of_ten(n) == IF n = 0 THEN 1 ELSE 10 * power_of_ten(n - 1)

\* a numeral without its sign
unsigned(str) == IF str # << >> /\ Head(str) \in {"+", "-"} THEN Tail(str) ELSE str
negative(str) == str # << >> /\ Head(str) = "-"

\* int(str): the value, or ValueError when int_ok is false
int_ok(str) == unsigned(strip(str)) # << >> /\ isdigits(unsigned(strip(str)))
int(str) == LET v == digits_value(unsigned(strip(str)))
            IN  IF negative(strip(str)) THEN -v ELSE v

\* float(str) on a str without letters: digits with at most one point and at
\* least one digit; the value as a fixed-point number
point(str) == IF \E k \in 1..Len(str) : str[k] = "."
              THEN CHOOSE k \in 1..Len(str) :
                      str[k] = "." /\ \A j \in 1..(k - 1) : str[j] # "."
              ELSE Len(str) + 1
float_ok(str) ==
    LET u == unsigned(strip(str))
        whole == SubSeq(u, 1, point(u) - 1)
        fraction == SubSeq(u, point(u) + 1, Len(u))
    IN  isdigits(whole) /\ isdigits(fraction) /\ Len(whole) + Len(fraction) > 0
float(str) ==
    LET u == unsigned(strip(str))
        whole == SubSeq(u, 1, point(u) - 1)
        fraction == SubSeq(u, point(u) + 1, Len(u))
        v == digits_value(whole) * Scale
             + Rnd(digits_value(fraction) * Scale, power_of_ten(Len(fraction)))
    IN  IF negative(strip(str)) THEN -v ELSE v

\* GCommand.__init__
NoParameters == [k \in {} |-> 0]
GCommand ==
    [ valid |-> FALSE, gtype |-> << >>, gnumber |-> 0,
      g |-> FALSE, m |-> FALSE, t |-> FALSE,
      parameters |-> NoParameters, comment |-> << >>,
      linenumber |-> 0, original |-> << >> ]

\* GCommand.set_gtype: the gtype is stored before int() can raise
set_gtype(cmd, gtype) ==
    LET named == [cmd EXCEPT !.gtype = str_upper(strip(gtype))]
        numbered == [named EXCEPT !.gnumber = int(Tail(gtype))]
        first == named.gtype[1]
    IN  IF ~int_ok(Tail(gtype)) THEN [cmd |-> named, exc |-> "ValueError"]
        ELSE IF first = "G" THEN [cmd |-> [numbered EXCEPT !.g = TRUE], exc |-> "none"]
        ELSE IF first = "M" THEN [cmd |-> [numbered EXCEPT !.m = TRUE], exc |-> "none"]
        ELSE IF first = "T" THEN [cmd |-> [numbered EXCEPT !.t = TRUE], exc |-> "none"]
        ELSE [cmd |-> numbered, exc |-> "ValueError"]

\* GCommand.set_param
set_param(cmd, param, value) ==
    [cmd EXCEPT !.parameters =
        [k \in DOMAIN cmd.parameters \cup {upper(param)} |->
            IF k = upper(param) THEN value ELSE cmd.parameters[k]]]

\* a lookup that takes the letter as it is given
has_param_exact(cmd, param) == param \in DOMAIN cmd.parameters

\* GCommand.has_param
has_param(cmd, param) == upper(param) \in DOMAIN cmd.parameters

\* GCommand.get_param: the value, or KeyError
get_param(cmd, param) ==
    IF upper(param) \in DOMAIN cmd.parameters
    THEN [exc |-> "none", value |-> cmd.parameters[upper(param)]]
    ELSE [exc |-> "KeyError", value |-> 0]

\* GCommand.clear_params, is_valid, validate
clear_params(cmd) == [cmd EXCEPT !.parameters = NoParameters]
is_valid(cmd) == cmd.valid
validate(cmd) == [cmd EXCEPT !.valid = TRUE]

\* GCode._split_instruction_comment
split_instruction_comment(line) ==
    LET found == \E k \in 1..Len(line) : line[k] = ";"
        i_split == CHOOSE k \in 1..Len(line) :
                      line[k] = ";" /\ \A j \in 1..(k - 1) : line[j] # ";"
    IN  IF found THEN [instruction |-> SubSeq(line, 1, i_split - 1),
                       comment |-> SubSeq(line, i_split, Len(line))]
        ELSE [instruction |-> line, comment |-> << >>]

\* an invalid line is dropped whenever ignore_invalid is set
invalid_line_ignore_first(p, gcommand, line) ==
    IF p.ignore_invalid THEN [parser |-> p, exc |-> "none"]
    ELSE [parser |-> p, exc |-> "ValueError"]

\* GCode._invalid_line
invalid_line(p, gcommand, line) ==
    IF p.ignore_invalid /\ ~p.keep_invalid THEN [parser |-> p, exc |-> "none"]
    ELSE IF p.ignore_invalid /\ p.keep_invalid
    THEN [parser |-> [p EXCEPT !.commands =
                         Append(@, clear_params([gcommand EXCEPT !.original = line]))],
          exc |-> "none"]
    ELSE [parser |-> p, exc |-> "ValueError"]

\* GCode._segment_instructions: None (invalid) when a letter does not follow
\* a space, else the instruction cut in front of every letter but the first
\* character
segment_starts(instruction) ==
    {1} \cup { i \in 2..Len(instruction) : isalpha(instruction[i]) }
segment_instructions(instruction) ==
    LET starts == segment_starts(instruction)
        start(n) == CHOOSE i \in starts : Cardinality({ j \in starts : j < i }) = n - 1
        stop(n) == IF n = Cardinality(starts) THEN Len(instruction) ELSE start(n + 1) - 1
    IN  [ invalid |-> \E i \in 2..Len(instruction) :
                          isalpha(instruction[i]) /\ instruction[i - 1] # " ",
          segmented |-> [n \in 1..Cardinality(starts) |->
                            SubSeq(instruction, start(n), stop(n))] ]

\* instruction.replace("  ", " ") until no two spaces are left
single_spaces(instruction) ==
    LET keep == { k \in 1..Len(instruction) :
                    ~(instruction[k] = " " /\ k > 1 /\ instruction[k - 1] = " ") }
        nth(n) == CHOOSE k \in keep : Cardinality({ j \in keep : j < k }) = n - 1
    IN  [n \in 1..Cardinality(keep) |-> instruction[nth(n)]]

\* the loop over the parameters in _parse_instruction, from parameter n on:
\* the parameters set before a bad one stay set
RECURSIVE parse_params(_, _, _)
parse_params(gcommand, segmented, n) ==
    IF n > Len(segmented) THEN [cmd |-> gcommand, ok |-> TRUE]
    ELSE LET param == segmented[n]
             key == param[1]
         IN  IF ~float_ok(Tail(param)) THEN [cmd |-> gcommand, ok |-> FALSE]
             ELSE IF upper(key) = "G" \/ upper(key) = "M"
             THEN [cmd |-> gcommand, ok |-> FALSE]
             ELSE parse_params(set_param(gcommand, key, float(Tail(param))),
                               segmented, n + 1)

\* GCode._parse_instruction: success, or what _invalid_line did
parse_instruction(p, gcommand, instruction, line) ==
    LET seg == segment_instructions(single_spaces(instruction))
        gtype == seg.segmented[1]
        typed == set_gtype(gcommand, gtype)
        params == parse_params(typed.cmd, seg.segmented, 2)
        invalid(cmd) == LET r == invalid_line(p, cmd, line)
                        IN  [parser |-> r.parser, cmd |-> cmd, success |-> FALSE,
                             exc |-> r.exc]
    IN  IF seg.invalid THEN invalid(gcommand)
        ELSE IF gtype[1] \notin {"G", "M", "T", "g", "m", "t"} THEN invalid(gcommand)
        ELSE IF typed.exc # "none" THEN invalid(typed.cmd)
        ELSE IF ~params.ok THEN invalid(params.cmd)
        ELSE [parser |-> p, cmd |-> params.cmd, success |-> TRUE, exc |-> "none"]

\* the clean-up in parse_line: line breaks go, tabs become spaces, and the
\* line starts at its first character that is no space (at its last
\* character when all are spaces)
clean_up(line) ==
    LET kept == SelectSeq(line, LAMBDA c : c \notin {"\r", "\n"})
        spaced == [k \in 1..Len(kept) |-> IF kept[k] = "\t" THEN " " ELSE kept[k]]
        i == IF \E k \in 1..Len(spaced) : ~isspace(spaced[k])
             THEN CHOOSE k \in 1..Len(spaced) :
                     ~isspace(spaced[k]) /\ \A j \in 1..(k - 1) : isspace(spaced[j])
             ELSE Max(1, Len(spaced))
    IN  SubSeq(spaced, i, Len(spaced))

\* GCode.parse_line: the GCode object after the call, the exception raised,
\* and whether the line was rejected (_invalid_line was called)
parse_line(p, line, linenumber) ==
    LET gcommand == [GCommand EXCEPT
                        !.linenumber = linenumber,
                        !.original = IF p.keep_invalid \/ p.keep_raw THEN line ELSE @]
        cleaned == clean_up(line)
        split == split_instruction_comment(cleaned)
        commented == [gcommand EXCEPT !.comment = split.comment]
        r == parse_instruction(p, commented, split.instruction, cleaned)
        accepted(cmd) == [parser |-> [p EXCEPT !.commands = Append(@, validate(cmd))],
                          exc |-> "none", rejected |-> FALSE]
    IN  IF line = << >> THEN [parser |-> p, exc |-> "none", rejected |-> FALSE]
        ELSE IF split.instruction = << >> THEN accepted(commented)
        ELSE IF ~r.success THEN [parser |-> r.parser, exc |-> r.exc, rejected |-> TRUE]
        ELSE accepted(r.cmd)

\* lines of a file that are G-code
AcceptedLines ==
    { <<"G", "1", " ", "X", "5", " ", "Y", "4", "\n">>,  \* two parameters
      <<"g", "0", "1", " ", "x", "5", "\n">>,  \* lower case, leading zero
      <<"G", "0", "0", "1", " ", "X", "-", "1", ".", "5", "\n">>,  \* leading zeros, negative fraction
      <<" ", " ", "G", "1", " ", " ", "X", "5", "\t", "Y", "4", " ", ";", "c", "\r", "\n">>,  \* leading spaces, a tab, a comment
      <<";", "c", "\n">>,  \* a comment alone
      <<"\n">>,  \* a blank line
      <<"M", "5", "\n">>,  \* an M command
      <<"G", "1", " ", "T", "1", " ", "x", "4", "\n">> }  \* T as a parameter

\* lines of a file that are not
RejectedLines ==
    { <<"G", "1", "X", "5", "\n">>,  \* no space before a parameter
      <<"X", "5", " ", "G", "1", "\n">>,  \* no command in first place
      <<"G", "1", " ", "X", "\n">>,  \* a parameter without a value
      <<"G", "1", " ", "X", "5", " ", "M", "3", "\n">>,  \* a command as a parameter
      <<"G", "\n">>,  \* a command without a number
      <<"G", "1", ".", "5", " ", "X", "5", "\n">>,  \* a command number that is no integer
      <<" ", " ", "\n">>,  \* white space alone
      <<"G", "1", " ", "X", "5", " ", "Y", "1", "-", "\n">> }  \* a second parameter that is no number

\* the lines given to parse_line: lines as readlines returns them, and the
\* empty str
Lines == AcceptedLines \cup RejectedLines \cup {<< >>}

\* gcode.parse_line(line, linenumber); when the call raises, the caller
\* catches the exception and the object stays in use
parse_line_call ==
    /\ parsed.calls < MaxLines
    /\ \E line \in Lines :
         LET r == parse_line(parser, line, parsed.calls + 1)
         IN  /\ parser' = r.parser
             /\ parsed' = [line |-> line, exc |-> r.exc, rejected |-> r.rejected,
                           before |-> Len(parser.commands),
                           calls |-> parsed.calls + 1]
    /\ UNCHANGED <<profile_vars, gcode, profilecon, machine_vars, sampler_vars, ui_vars>>

InitParser ==
    /\ gcode = << >>
    /\ profilecon = default_profile
    /\ InitMachine /\ InitMainWindow /\ InitProfileConnector
    /\ parser \in { GCode(keep_invalid, ignore_invalid, keep_raw) :
                       keep_invalid \in BOOLEAN, ignore_invalid \in BOOLEAN,
                       keep_raw \in BOOLEAN }
    /\ parsed = NotParsed

NextParser == parse_line_call

SpecParser == InitParser /\ [][NextParser]_vars

\* ------------------------------------------------------------- MainWindow
\* The window's handlers run on the UI thread.  QMessageBox.exec and
\* QFileDialog.exec_ run a nested event loop: while one is open the window
\* takes no clicks, but queued signals are still delivered.  A Machine object
\* is named by the task whose load_data created it.
planner_idle == UNCHANGED <<profile_vars, gcode, profilecon, machine_vars, sampler_vars, parser_vars>>

\* BackgroundTask.__init__: a thread that has not run a statement yet
BackgroundTask == [pc |-> "started", after_calls |-> 0, after_early |-> FALSE,
                   handled |-> FALSE]

\* load_data has returned in task t
func_returned(t) == tasks[t].pc \in {"returned", "finished"}

\* create_path has returned on the Machine made by task m
planned(m) == tasks[m].pc \in {"path_created", "returned", "finished"}

\* what a handler finds in self.machine
machine_state(m) == IF m = 0 THEN "None"
                    ELSE IF planned(m) THEN "planned" ELSE "unplanned"

\* a handler raised: PyQt either aborts the application or prints the
\* traceback and returns to the event loop, depending on its version
AfterException(pc) == {"aborted", pc}

\* the Open button: open_file_dialog up to its first dialog
open_file_dialog ==
    /\ ui_pc = "idle"
    /\ ui_pc' = IF mainwindow.machine # 0 THEN "open_close_file" ELSE "open_dialog"
    /\ UNCHANGED <<mainwindow, tasks, events, ui_read>>
    /\ planner_idle

\* the Close button: close_file up to its confirmation box
close_file ==
    /\ ui_pc = "idle"
    /\ ui_pc' = "close_file"
    /\ UNCHANGED <<mainwindow, tasks, events, ui_read>>
    /\ planner_idle

\* the confirmation box of close_file is answered; when Open called
\* close_file, open_file_dialog goes on to the file dialog or returns
close_file_answered ==
    /\ ui_pc \in {"close_file", "open_close_file"}
    /\ \E yes \in BOOLEAN :
         /\ mainwindow' = IF yes THEN [mainwindow EXCEPT !.machine = 0, !.gcode = 0]
                                 ELSE mainwindow
         /\ ui_pc' = IF ui_pc = "open_close_file" /\ yes THEN "open_dialog" ELSE "idle"
    /\ UNCHANGED <<tasks, events, ui_read>>
    /\ planner_idle

\* run_in_background(self.load_data, after=self.show_layer, args=filename)
run_in_background ==
    /\ Len(tasks) < MaxTasks
    /\ tasks' = Append(tasks, BackgroundTask)
    /\ mainwindow' = [mainwindow EXCEPT !.backgroundTask = Len(tasks) + 1,
                                        !.postBackgroundTask = Len(tasks) + 1]

\* the file dialog is answered: with a file name the load starts
open_file_dialog_answered ==
    /\ ui_pc = "open_dialog"
    /\ ui_pc' = "idle"
    /\ \/ run_in_background
       \/ UNCHANGED <<mainwindow, tasks>>
    /\ UNCHANGED <<events, ui_read>>
    /\ planner_idle

\* self.machine.get_path_coordinates(...) in a handler: AttributeError when
\* self.machine is None
read_machine(by) ==
    /\ ui_read' = [by |-> by, machine |-> machine_state(mainwindow.machine)]
    /\ ui_pc' \in IF mainwindow.machine = 0 THEN AfterException(ui_pc) ELSE {ui_pc}

\* the Fit to View button
fit_plot_to_window ==
    /\ ui_pc = "idle"
    /\ read_machine("fit_plot_to_window")
    /\ UNCHANGED <<mainwindow, tasks, events>>
    /\ planner_idle

\* the layer slider is moved: valueChanged calls show_layer
show_layer ==
    /\ ui_pc = "idle"
    /\ mainwindow.layerSliderEnabled
    /\ read_machine("show_layer")
    /\ UNCHANGED <<mainwindow, tasks, events>>
    /\ planner_idle

\* the queued finished signal of task Head(events) is delivered, also while a
\* dialog is open: the callback stored last runs, whichever task stored it;
\* when it raises, the two fields are not reset
finish_background_task ==
    /\ ui_pc # "aborted"
    /\ events # << >>
    /\ events' = Tail(events)
    /\ LET e == Head(events)
           post == mainwindow.postBackgroundTask
           raised == post # 0 /\ mainwindow.machine = 0
           called == IF post = 0 THEN tasks
                     ELSE [tasks EXCEPT
                             ![post].after_calls = @ + 1,
                             ![post].after_early = @ \/ ~func_returned(post)]
       IN  /\ tasks' = [called EXCEPT ![e].handled = TRUE]
           /\ IF post # 0 THEN read_machine("postBackgroundTask")
                          ELSE UNCHANGED <<ui_read, ui_pc>>
           /\ mainwindow' = IF raised THEN mainwindow
                            ELSE [mainwindow EXCEPT !.postBackgroundTask = 0,
                                                    !.backgroundTask = 0]
    /\ planner_idle

\* BackgroundTask.run in thread t, one statement of load_data at a time:
\* load_file raises ValueError on a line it rejects and create_path can
\* raise; the thread then ends without emitting finished
BackgroundTask_run(t) ==
    /\ ui_pc # "aborted"
    /\ \/ /\ tasks[t].pc = "started"
          /\ \/ /\ tasks' = [tasks EXCEPT ![t].pc = "gcode_loaded"]
                /\ mainwindow' = [mainwindow EXCEPT !.gcode = t]
             \/ /\ tasks' = [tasks EXCEPT ![t].pc = "raised"]
                /\ mainwindow' = [mainwindow EXCEPT !.gcode = t]
          /\ UNCHANGED events
       \/ /\ tasks[t].pc = "gcode_loaded"
          /\ tasks' = [tasks EXCEPT ![t].pc = "machine_created"]
          /\ mainwindow' = [mainwindow EXCEPT !.machine = t]
          /\ UNCHANGED events
       \/ /\ tasks[t].pc = "machine_created"
          /\ \E pc \in {"path_created", "raised"} :
                tasks' = [tasks EXCEPT ![t].pc = pc]
          /\ UNCHANGED <<mainwindow, events>>
       \/ /\ tasks[t].pc = "path_created"
          /\ tasks' = [tasks EXCEPT ![t].pc = "returned"]
          /\ mainwindow' = [mainwindow EXCEPT !.layerSliderEnabled = TRUE]
          /\ UNCHANGED events
       \/ /\ tasks[t].pc = "returned"
          /\ tasks' = [tasks EXCEPT ![t].pc = "finished"]
          /\ events' = Append(events, t)
          /\ UNCHANGED mainwindow
    /\ UNCHANGED <<ui_pc, ui_read>>
    /\ planner_idle

InitUI ==
    /\ gcode = << >>
    /\ profilecon = default_profile
    /\ InitMachine /\ InitMainWindow /\ InitGCode /\ InitProfileConnector

NextUI ==
    \/ open_file_dialog
    \/ close_file
    \/ close_file_answered
    \/ open_file_dialog_answered
    \/ fit_plot_to_window
    \/ show_layer
    \/ finish_background_task
    \/ \E t \in 1..Len(tasks) : BackgroundTask_run(t)

SpecUI == InitUI /\ [][NextUI]_vars

\* ----------------------------------------------------------------- claims
\* C1: once calculate_path_segments has run, every path segment, the first
\* one and the zero-distance ones included, has
\* 0 <= entry_speed <= max_entry_speed <= nominal_speed.
C1_EntrySpeedsOrdered ==
    runs >= 1 =>
        \A i \in 1..Len(path_segments) :
            LET seg == path_segments[i]
            IN  /\ 0 <= seg.entry_speed
                /\ seg.entry_speed <= seg.max_entry_speed
                /\ seg.max_entry_speed <= seg.nominal_speed

\* a solved path with a zero-distance segment after the first one, a segment
\* whose entry speed the forward pass held strictly below its limit, and a
\* segment entered at a limit below its nominal speed
C1_Witness ==
    /\ runs >= 1
    /\ \E i \in 2..Len(path_segments) : path_segments[i].distance = 0
    /\ \E i \in 1..Len(path_segments) :
         LET seg == path_segments[i]
         IN  0 < seg.entry_speed /\ seg.entry_speed < seg.max_entry_speed
    /\ \E i \in 1..Len(path_segments) :
         LET seg == path_segments[i]
         IN  /\ 0 < seg.entry_speed
             /\ seg.entry_speed = seg.max_entry_speed
             /\ seg.max_entry_speed < seg.nominal_speed


\* the sub-segments one completed profiling pass must append for segments
\* i.. of a solved path, as pairs <<parent, acceleration>>
RECURSIVE ExpectedRuns(_, _, _)
ExpectedRuns(segs, i, A) ==
    IF i > Len(segs) THEN << >>
    ELSE LET seg == segs[i]
             cruise == max_possible_speed(seg, next_entry_speed_of(segs, i), A)
                       > seg.nominal_speed
             run == IF seg.distance = 0 THEN << >>
                    ELSE IF cruise THEN << <<i, A>>, <<i, 0>>, <<i, -A>> >>
                    ELSE << <<i, A>>, <<i, -A>> >>
         IN  run \o ExpectedRuns(segs, i + 1, A)

\* what the profiling pass of this step appended to acceleration_segments
Appended ==
    SubSeq(acceleration_segments', Len(acceleration_segments) + 1,
           Len(acceleration_segments'))

\* C7: a completed profiling pass appends, in path-segment order, nothing
\* for a segment of distance 0 and for a segment of distance > 0 one run of
\* accelerate (+ACCELERATION), cruise (0) exactly when
\* maximum_possible_speed > nominal_speed, decelerate (-ACCELERATION).
C7_RunsPerSegment ==
    [][ (runs' = runs + 1 /\ create_path_exc' = "none") =>
            [k \in 1..Len(Appended) |->
                <<Appended[k].path_seg, Appended[k].acceleration>>]
            = ExpectedRuns(path_segments', 1, ACCELERATION') ]_vars

\* a profiled path with a three-phase run, a two-phase run and a segment of
\* distance 0 between two moving segments
C7_Witness ==
    /\ runs = 1 /\ create_path_exc = "none"
    /\ \E k \in 1..Len(acceleration_segments) :
         acceleration_segments[k].acceleration = 0
    /\ \E k \in 1..(Len(acceleration_segments) - 1) :
         /\ acceleration_segments[k].acceleration = ACCELERATION
         /\ acceleration_segments[k + 1].acceleration = -ACCELERATION
    /\ \E i \in 2..(Len(path_segments) - 1) :
         /\ path_segments[i].distance = 0
         /\ path_segments[i - 1].distance > 0
         /\ path_segments[i + 1].distance > 0


\* the run that starts at the accelerate sub-segment k has a cruise phase
ThreePhase(accs, k) == accs[k + 1].acceleration = 0

\* summed distance of the sub-segments of the run that starts at k
RunDistance(accs, k) ==
    accs[k].distance + accs[k + 1].distance
    + (IF ThreePhase(accs, k) THEN accs[k + 2].distance ELSE 0)

\* Rounding allowance of the distance of a run.  The model rounds a ramp's
\* duration to 1/Scale s, which moves the ramp's distance by up to the speed
\* reached times that, and rounds the speed reached to 1/Scale mm/s, which
\* moves each duration by that over the acceleration a.
RunTolerance(v, a) == DistanceTolerance + 2 * (v \div Scale + 1) * (Scale \div a + 2)

\* C8: the distances of the accelerate, cruise (if any) and decelerate
\* sub-segments of every profiled path segment sum to the distance of the
\* path segment, to within the rounding of the fixed-point arithmetic.
C8_DistancesSum ==
    \A k \in 1..Len(acceleration_segments) :
        acceleration_segments[k].acceleration > 0 =>
            Abs(RunDistance(acceleration_segments, k)
                - path_segments[acceleration_segments[k].path_seg].distance)
            <= RunTolerance(path_segments[acceleration_segments[k].path_seg].max_reached_speed,
                            acceleration_segments[k].acceleration)

\* a profiled path with a two-phase and a three-phase run, both with
\* sub-segments of non-zero distance
C8_Witness ==
    /\ runs >= 1
    /\ \E k \in 1..Len(acceleration_segments) :
         /\ acceleration_segments[k].acceleration > 0
         /\ ThreePhase(acceleration_segments, k)
         /\ \A j \in k..(k + 2) : acceleration_segments[j].distance > 0
    /\ \E k \in 1..Len(acceleration_segments) :
         /\ acceleration_segments[k].acceleration > 0
         /\ ~ThreePhase(acceleration_segments, k)
         /\ \A j \in k..(k + 1) : acceleration_segments[j].distance > 0


\* C2: on every sampler, a sample call whose time is smaller than the time
\* of the last successful call raises ValueError and leaves the cursor state
\* (sub-segment, its start and end time, current time, coordinate) unchanged.
C2_BackwardsRaisesValueError ==
    [][ (samples' = samples + 1 /\ last_ok >= 0 /\ ret'.time < last_ok) =>
            (ret'.exc = "ValueError" /\ sampler' = sampler) ]_vars

\* C3: a sampler asked non-decreasing times raises IndexError exactly when
\* the time is greater than the summed duration of all sub-segments; a query
\* at that total is answered, by SpeedFromTime and PositionFromTime alike.
C3_EndOfRangeBoundary ==
    (ret.op = "getitem" /\ ret.nondecreasing) =>
        (ret.exc = "IndexError" <=> ret.time > TotalDuration(acceleration_segments))

\* C4: after a failed sample call, every later call with an in-range time
\* not smaller than the last successfully sampled time returns what a sampler
\* that never made the failed call returns.
C4_FailedCallLeavesSamplerIntact ==
    [][ (/\ samples' = samples + 1
         /\ 0 <= ret'.time
         /\ ret'.time <= TotalDuration(acceleration_segments)
         /\ last_ok <= ret'.time) =>
            (ret'.exc = ret'.ref_exc /\ ret'.value = ret'.ref_value) ]_vars

\* C5: create_path never raises, also when a record moves in x/y before any
\* feed rate was given.
C5_CreatePathNeverRaises == create_path_exc = "none"

\* C6: on a Machine whose create_path has completed, constructing a sampler
\* never raises, also when there is no acceleration sub-segment.
C6_SamplerConstructible ==
    (ret.op = "init" /\ runs >= 1 /\ create_path_exc = "none") => ret.exc = "none"

\* one create_path on a fresh Machine with the same records and settings
SingleRun ==
    LET a == get_value(profilecon, "acceleration")
        built == create_path_segments(gcode, << >>, << >>, CREATE_LAYERS)
        solved == calculate_path_segments(built.segs, get_value(profilecon, "min_speed"),
                                          a, get_value(profilecon, "junction_dev"))
        profiled == calculate_acceleration_segments(solved, << >>, a)
    IN  [segs |-> profiled.segs, accs |-> profiled.accs, lays |-> built.lays]

\* C9: however often create_path has run on the Machine, its path segments
\* (entry speeds included), acceleration sub-segments (durations included)
\* and layer starts are those of a single run on a fresh Machine.
C9_RerunIdempotent ==
    (runs >= 1 /\ create_path_exc = "none") =>
        /\ path_segments = SingleRun.segs
        /\ acceleration_segments = SingleRun.accs
        /\ layers = SingleRun.lays

\* C10: a successful AccelerationFromTime sample returns the accelerations
\* (scalar, x, y) of the sub-segment active at the sampled time.
C10_AccelerationReturned ==
    (ret.op = "getitem" /\ sampler.cls = "AccelerationFromTime" /\ ret.exc = "none") =>
        ret.value = <<get_accelerations(acceleration_segments[sampler.current_seg])>>

\* C11: while a load runs in a BackgroundTask, self.machine is in every
\* reachable state either None or a Machine whose create_path has returned,
\* and no handler on the UI thread (Fit to View, the layer slider, the
\* callback of a finished task) reads a Machine whose create_path has not
\* returned.
C11_MachineNoneOrPlanned ==
    /\ machine_state(mainwindow.machine) # "unplanned"
    /\ ui_read.machine # "unplanned"

\* C12: the 'after' callback of every task started with run_in_background
\* runs at most once, never before the task's function has returned, and
\* has run exactly once when the task's finished signal has been handled,
\* also when a second task is started before the first one has finished.
C12_AfterRunsOnceAfterItsTask ==
    \A t \in 1..Len(tasks) :
        /\ tasks[t].after_calls <= 1
        /\ ~tasks[t].after_early
        /\ tasks[t].handled => tasks[t].after_calls = 1

\* C13: after a file with at least one record has been loaded,
\* get_path_coordinates returns, without raising, two coordinate lists of
\* equal length for layer_number None and for every value the layer slider
\* can have.
C13_PathCoordinatesReturned ==
    (runs = 1 /\ create_path_exc = "none" /\ gcode # << >>) =>
        \A layer_number \in {None} \cup { <<n>> : n \in layerSlider_values(layers) } :
            LET r == get_path_coordinates(layer_number, layers, path_segments)
            IN  r.exc = "none" /\ Len(r.coords_x) = Len(r.coords_y)

\* segments i - 1 and i are consecutive moving segments
ConsecutiveMoving(i) ==
    /\ i \in 2..Len(path_segments)
    /\ path_segments[i - 1].distance # 0
    /\ path_segments[i].distance # 0

\* cosine of the junction angle between segments i - 1 and i, as the first
\* pass computes it from the unit vectors
JunctionCosTheta(i) ==
    (-Mul(path_segments[i].x_unit_vec, path_segments[i - 1].x_unit_vec))
    - Mul(path_segments[i].y_unit_vec, path_segments[i - 1].y_unit_vec)

Straight(i) == ConsecutiveMoving(i) /\ JunctionCosTheta(i) * 1000000 < -(999999 * Scale)
FullTurn(i) == ConsecutiveMoving(i) /\ JunctionCosTheta(i) * 1000000 > 999999 * Scale

MinNominal(i) == Min(path_segments[i - 1].nominal_speed, path_segments[i].nominal_speed)

\* what the forward and the reverse pass leave of an entry speed: the speed
\* reachable from the previous segment's entry speed over its distance, and
\* the speed from which the following entry speed (0 after the last segment)
\* can be reached over this segment's distance
PassLimit(i) ==
    Min(path_segments[i - 1].entry_speed
            + speed_gain(ACCELERATION, path_segments[i - 1].distance),
        next_entry_speed_of(path_segments, i)
            + speed_gain(ACCELERATION, path_segments[i].distance))

\* C14 as stated: at a straight junction of two moving segments with nominal
\* speeds set, the second segment's final entry speed equals the smaller of
\* the two nominal speeds.
C14_StraightEntryIsMinNominal ==
    \A i \in 1..Len(path_segments) :
        (runs >= 1 /\ Straight(i) /\ MinNominal(i) > 0) =>
            path_segments[i].entry_speed = MinNominal(i)

\* C14 amended: at a straight junction of two moving segments the second
\* segment's final entry speed is the smallest of the two nominal speeds, the
\* first segment's final entry speed plus sqrt(2 * ACCELERATION * its
\* distance), and the following segment's final entry speed (0 after the
\* last segment) plus sqrt(2 * ACCELERATION * the second segment's distance).
C14_StraightEntryIsMinNominalOrPassLimit ==
    \A i \in 1..Len(path_segments) :
        (runs >= 1 /\ Straight(i)) =>
            path_segments[i].entry_speed = Min(MinNominal(i), PassLimit(i))

\* a straight junction entered at the smaller nominal speed, and one where
\* the passes hold the entry speed below it
C14_Witness ==
    /\ runs >= 1
    /\ \E i \in 1..Len(path_segments) :
          /\ Straight(i)
          /\ path_segments[i].entry_speed = MinNominal(i)
          /\ 0 < MinNominal(i) /\ MinNominal(i) < PassLimit(i)

\* C15 as stated: at a full turn between two moving segments with nominal
\* speeds set, the second segment's final entry speed equals MIN_SPEED
\* squared.
C15_FullTurnEntryIsMinSpeedSquared ==
    \A i \in 1..Len(path_segments) :
        (runs >= 1 /\ FullTurn(i) /\ MinNominal(i) > 0) =>
            path_segments[i].entry_speed = Mul(MIN_SPEED, MIN_SPEED)

\* C15 amended: at a full turn between two moving segments the second
\* segment's final entry speed is the smallest of MIN_SPEED squared, the two
\* nominal speeds, the first segment's final entry speed plus
\* sqrt(2 * ACCELERATION * its distance), and the following segment's final
\* entry speed (0 after the last segment) plus
\* sqrt(2 * ACCELERATION * the second segment's distance).
C15_FullTurnEntryIsMinOfLimits ==
    \A i \in 1..Len(path_segments) :
        (runs >= 1 /\ FullTurn(i)) =>
            path_segments[i].entry_speed =
                Min(Mul(MIN_SPEED, MIN_SPEED), Min(MinNominal(i), PassLimit(i)))

\* a full turn entered at MIN_SPEED squared, below every other limit
C15_Witness ==
    /\ runs >= 1
    /\ \E i \in 1..Len(path_segments) :
          /\ FullTurn(i)
          /\ path_segments[i].entry_speed = Mul(MIN_SPEED, MIN_SPEED)
          /\ Mul(MIN_SPEED, MIN_SPEED) < Min(MinNominal(i), PassLimit(i))
          /\ Mul(MIN_SPEED, MIN_SPEED) # MIN_SPEED

\* the plan a new Machine makes of the records gc under the current settings
PlanOf(gc) ==
    LET built == create_path_segments(gc, << >>, << >>, CREATE_LAYERS)
        solved == calculate_path_segments(built.segs, MIN_SPEED, ACCELERATION,
                                          JUNCTION_DEVIATION)
    IN  calculate_acceleration_segments(solved, << >>, ACCELERATION)

\* the records without record k
Without(gc, k) == SubSeq(gc, 1, k - 1) \o SubSeq(gc, k + 1, Len(gc))

\* record k names the position of record k - 1 again and sets no feed rate
RepeatsPosition(k) ==
    /\ k \in 2..Len(gcode)
    /\ ~has_word(gcode[k], "F")
    /\ path_segments[k].x = path_segments[k - 1].x
    /\ path_segments[k].y = path_segments[k - 1].y

\* the sub-segments of path segment j in the order of the flat list: what
\* they do, not which objects they are
SubSegments(segs, accs, j) ==
    LET own == SelectSeq(accs, LAMBDA a : a.path_seg = j)
    IN  [n \in 1..Len(own) |->
            <<own[n].acceleration, own[n].distance, own[n].duration,
              own[n].x, own[n].y>>]

\* C16: a record that repeats the position of the record before it gives one
\* extra path segment with distance 0 and no sub-segments, and every other
\* path segment has the entry speed, the maximum reached speed and the
\* sub-segments it has in the plan of the records without that record.
C16_RepeatedPositionIsNeutral ==
    (runs = 1 /\ create_path_exc = "none") =>
        \A k \in 1..Len(gcode) :
            RepeatsPosition(k) =>
                /\ path_segments[k].distance = 0
                /\ path_segments[k].acceleration_segments = << >>
                /\ LET other == PlanOf(Without(gcode, k))
                   IN  other.exc = "none" =>
                         \A j \in (1..Len(gcode)) \ {k} :
                            LET j2 == IF j < k THEN j ELSE j - 1
                            IN  /\ path_segments[j].entry_speed
                                     = other.segs[j2].entry_speed
                                /\ path_segments[j].max_reached_speed
                                     = other.segs[j2].max_reached_speed
                                /\ SubSegments(path_segments, acceleration_segments, j)
                                     = SubSegments(other.segs, other.accs, j2)

\* path segment j is profiled into an accelerating, a cruising and a
\* decelerating sub-segment, in this order
AccelerateCruiseDecelerate(j) ==
    LET own == SelectSeq(acceleration_segments, LAMBDA a : a.path_seg = j)
    IN  /\ Len(own) = 3
        /\ Len(path_segments[j].acceleration_segments) = 3
        /\ own[1].acceleration > 0 /\ own[1].duration > 0
        /\ own[2].acceleration = 0 /\ own[2].duration > 0
        /\ own[3].acceleration < 0 /\ own[3].duration > 0

CornerPlanned ==
    gcode = CornerProgram /\ profilecon = CornerProfile /\ runs = 1

\* C17: the path (0,0) -> (100,0) -> (100,100) at nominal speed 50 with
\* ACCELERATION 1000, MIN_SPEED 10 and JUNCTION_DEVIATION 0.05 is planned
\* without an exception, the entry speed at the 90 degree junction lies
\* strictly between 10 and 50, and each of the two moving segments is
\* profiled into exactly three sub-segments: accelerate, cruise, decelerate.
C17_CornerScenario ==
    CornerPlanned =>
        /\ create_path_exc = "none"
        /\ Len(path_segments) = 3
        /\ path_segments[2].distance = mm(100) /\ path_segments[3].distance = mm(100)
        /\ JunctionCosTheta(3) = 0
        /\ mm(10) < path_segments[3].entry_speed
        /\ path_segments[3].entry_speed < mm(50)
        /\ Len(acceleration_segments) = 6
        /\ AccelerateCruiseDecelerate(2)
        /\ AccelerateCruiseDecelerate(3)

\* the scenario has been planned: both moving segments cruise at 50
C17_Witness ==
    /\ CornerPlanned
    /\ path_segments[2].max_reached_speed = mm(50)
    /\ path_segments[3].max_reached_speed = mm(50)
    /\ path_segments[3].entry_speed > 0

\* the last parse_line call was given a line of a file
LineParsed == parsed.calls > 0 /\ parsed.line # << >>

\* the command appended last
LastCommand == parser.commands[Len(parser.commands)]

\* commands appended by the last parse_line call
AppendedCommands == Len(parser.commands) - parsed.before

\* C18: a line the parser rejects has one of three outcomes fixed by the
\* options: with default options ValueError is raised and nothing is
\* appended; with ignore_invalid and keep_invalid exactly one command is
\* appended and its is_valid() is False; with ignore_invalid alone nothing is
\* appended and nothing is raised.  A line the parser accepts is appended
\* with is_valid() True, and the lines rejected are those that are no G-code.
C18_InvalidLineOutcomes ==
    LineParsed =>
        /\ parsed.rejected = (parsed.line \in RejectedLines)
        /\ IF parsed.rejected
           THEN /\ (~parser.ignore_invalid /\ ~parser.keep_invalid) =>
                       parsed.exc = "ValueError" /\ AppendedCommands = 0
                /\ (parser.ignore_invalid /\ parser.keep_invalid) =>
                       /\ parsed.exc = "none" /\ AppendedCommands = 1
                       /\ ~is_valid(LastCommand)
                /\ (parser.ignore_invalid /\ ~parser.keep_invalid) =>
                       parsed.exc = "none" /\ AppendedCommands = 0
           ELSE /\ parsed.exc = "none" /\ AppendedCommands = 1
                /\ is_valid(LastCommand)

\* a rejected line kept as an invalid command
C18_Witness ==
    /\ LineParsed /\ parsed.rejected
    /\ parser.ignore_invalid /\ parser.keep_invalid
    /\ AppendedCommands = 1 /\ ~is_valid(LastCommand)
    /\ LastCommand.gtype # << >>

\* C19: every accepted command whose command word is G<n> reports the field
\* 'G' as present with the value n: has_param('G') is True and
\* get_param('G') == n, G1, G01 and G001 all giving 1.
C19_CommandNumberIsFieldG ==
    \A k \in 1..Len(parser.commands) :
        LET cmd == parser.commands[k]
        IN  (is_valid(cmd) /\ cmd.g) =>
                /\ has_param(cmd, "G")
                /\ get_param(cmd, "G") = [exc |-> "none", value |-> mm(cmd.gnumber)]

\* the parameter letters as the line spells them
WrittenKeys(line) ==
    LET segmented == segment_instructions(single_spaces(
                         split_instruction_comment(clean_up(line)).instruction)).segmented
    IN  { segmented[n][1] : n \in 2..Len(segmented) }

\* C20: has_param and get_param give the same answer for the upper-case and
\* the lower-case letter, for every command and every letter, and a
\* parameter is found under both, whichever case the line spells it in.
C20_LookupIgnoresCase ==
    /\ \A k \in 1..Len(parser.commands) : \A l \in Letters :
          /\ has_param(parser.commands[k], l[1]) = has_param(parser.commands[k], l[2])
          /\ get_param(parser.commands[k], l[1]) = get_param(parser.commands[k], l[2])
    /\ (LineParsed /\ ~parsed.rejected) =>
          \A key \in WrittenKeys(parsed.line) :
              /\ has_param(LastCommand, lower(key))
              /\ has_param(LastCommand, upper(key))

\* a parameter spelt in lower case is found under the upper-case letter
C20_Witness ==
    /\ LineParsed /\ ~parsed.rejected
    /\ \E key \in WrittenKeys(parsed.line) :
          /\ key # upper(key)
          /\ has_param(LastCommand, upper(key))
          /\ get_param(LastCommand, key).exc = "none"

\* rounding allowance of a squared speed [mm^2/s^2]
SpeedSquareTolerance == Scale \div 10

\* exit speed of path segment i: the next segment's entry speed, 0 after
\* the last segment
ExitSpeed(i) == next_entry_speed_of(path_segments, i)

\* v_to^2 <= v_from^2 + 2 * ACCELERATION * d
Reachable(v_from, v_to, d) ==
    Mul(v_to, v_to) <= Mul(v_from, v_from) + Mul(2 * ACCELERATION, d)
                       + SpeedSquareTolerance

\* C21: after solving, on every path segment the exit speed can be reached
\* from the entry speed, and the entry speed braked down to the exit speed,
\* under ACCELERATION over the segment's distance:
\* v_out^2 <= v_in^2 + 2 A d and v_in^2 <= v_out^2 + 2 A d.
C21_SpeedChangeFeasible ==
    runs = 1 =>
        \A i \in 1..Len(path_segments) :
            LET seg == path_segments[i]
            IN  /\ Reachable(seg.entry_speed, ExitSpeed(i), seg.distance)
                /\ Reachable(ExitSpeed(i), seg.entry_speed, seg.distance)

\* the words X, Y and F in force after record k of gc: the value of the last
\* record up to k that carries the word, 0 when none does
RECURSIVE Modal(_, _, _)
Modal(gc, k, w) ==
    IF k = 0 THEN 0
    ELSE IF has_word(gc[k], w) THEN get_word(gc[k], w)
    ELSE Modal(gc, k - 1, w)

\* the path segments one create_path_segments call appended
AppendedSegments ==
    SubSeq(path_segments', Len(path_segments) + 1, Len(path_segments'))

LayersAfter(gc, k) ==
    create_path_segments(SubSeq(gc, 1, k), << >>, << >>, CREATE_LAYERS).lays

\* the records at which a pending layer break was confirmed
ConfirmedAt(gc) ==
    { k \in 1..Len(gc) : Len(LayersAfter(gc, k)) > Len(LayersAfter(gc, k - 1)) }

\* the height at which the motion of the layer in progress before record k
\* was executed: the height after the last confirming record before k, 0
\* when there is none
LayerHeight(gc, k) ==
    LET earlier == { c \in ConfirmedAt(gc) : c < k }
    IN  IF earlier = {} THEN 0
        ELSE Modal(gc, CHOOSE c \in earlier : \A d \in earlier : d <= c, "Z")

\* C23: a layer start is recorded only for a non-travel motion executed at a
\* new height: at every record that confirms a layer break the height in
\* force once the record is applied differs from the height of the layer in
\* progress.
C23_BreakOnlyAtNewHeight ==
    runs = 1 =>
        /\ Len(layers) = Cardinality(ConfirmedAt(gcode))
        /\ \A k \in ConfirmedAt(gcode) :
              /\ has_word(gcode[k], "G") /\ get_word(gcode[k], "G") \in {1, 2, 3}
              /\ Modal(gcode, k, "Z") # LayerHeight(gcode, k)

\* the record that changed the height before the confirming record k: the
\* last earlier record with a Z word
HeightChangedAt(gc, k) ==
    CHOOSE h \in 1..(k - 1) :
        has_word(gc[h], "Z") /\ \A m \in (h + 1)..(k - 1) : ~has_word(gc[m], "Z")

\* position of k in the increasing enumeration of the set of numbers S
Rank(S, k) == Cardinality({ c \in S : c <= k })

\* C24: the index appended to Machine.layers when record i confirms a layer
\* break is the start of the layer entered: it lies between the index of
\* the record that changed the height and i (indices counted from 0).
C24_LayerStartOfEnteredLayer ==
    runs = 1 =>
        \A k \in ConfirmedAt(gcode) :
            LET start == layers[Rank(ConfirmedAt(gcode), k)]
            IN  HeightChangedAt(gcode, k) - 1 <= start /\ start <= k - 1

\* a layer-scoped PositionFromTime has been constructed
LayerSamplerBuilt ==
    /\ ret.op = "init" /\ ret.exc = "none"
    /\ ret.layer_number # None /\ layers # << >>

\* the first path segment of the layer: the one its start index names
LayerStart == layers[ret.layer_number[1] + 1] + 1

\* the path segment that holds the sub-segment the sampler starts on
FirstSampled == acceleration_segments[sampler.current_seg].path_seg

\* position along the sampler's axis
Coordinate(seg) == IF ret.coord_name = "x" THEN seg.x ELSE seg.y

\* C25: the initial coordinate of a layer-scoped PositionFromTime is the
\* machine position at which the layer's first sub-segment begins, the end
\* position of the path segment before it, for every layer, the first one
\* included.
C25_InitialCoordinateBeforeLayer ==
    LayerSamplerBuilt =>
        /\ FirstSampled > 1
        /\ sampler.coord_value = Coordinate(path_segments[FirstSampled - 1])

\* the last path segment of the sampler's layer: the one before the next
\* layer's start, the last of the path for the last layer
LayerEnd ==
    IF ret.layer_number[1] = Len(layers) - 1 THEN Len(path_segments)
    ELSE layers[ret.layer_number[1] + 2]

\* the sub-segments the sampler goes through: the one it starts on and
\* those its iterator still yields
Iterated == sampler.current_seg..sampler.seg_iter.end

\* C26: a layer-scoped PositionFromTime goes through every sub-segment of
\* every path segment of its layer and no other, and ends with a decelerate
\* sub-segment.
C26_ScopeIsTheLayer ==
    LayerSamplerBuilt =>
        /\ Iterated = { j \in 1..Len(acceleration_segments) :
                           acceleration_segments[j].path_seg \in LayerStart..LayerEnd }
        /\ acceleration_segments[sampler.seg_iter.end].acceleration < 0

\* ids of the sub-segments of path segment i in the order of the flat
\* sequence accs, from position k on
RECURSIVE RunOf(_, _, _)
RunOf(accs, i, k) ==
    IF k > Len(accs) THEN << >>
    ELSE (IF accs[k].path_seg = i THEN <<accs[k].id>> ELSE << >>)
         \o RunOf(accs, i, k + 1)

\* C27: every profiled path segment's own acceleration_segments list holds
\* the same sub-segments in the same order as its run in
\* Machine.acceleration_segments (accelerate, optional cruise, decelerate).
C27_OwnListMatchesFlatRun ==
    (runs = 1 /\ create_path_exc = "none") =>
        \A i \in 1..Len(path_segments) :
            path_segments[i].acceleration_segments
                = RunOf(acceleration_segments, i, 1)

\* C29: constructing a layer-scoped PositionFromTime returns or raises for
\* every layer index of a planned Machine.
C29_LayerConstructorTerminates ==
    (ret.op = "init" /\ ret.layer_number # None) => ret.exc # "NonTermination"

\* C28: after create_path every sub-segment has duration >= 0 and
\* distance >= 0, and every profiled path segment has
\* entry_speed <= max_reached_speed, exit speed <= max_reached_speed and
\* max_reached_speed <= nominal_speed, so the accumulated end times of the
\* sub-segments never decrease.
C28_SubSegmentsNonNegative ==
    (runs = 1 /\ create_path_exc = "none") =>
        /\ \A k \in 1..Len(acceleration_segments) :
              /\ acceleration_segments[k].duration >= 0
              /\ acceleration_segments[k].distance >= 0
              /\ EndTime(acceleration_segments, k - 1) <= EndTime(acceleration_segments, k)
        /\ \A i \in 1..Len(path_segments) :
              path_segments[i].acceleration_segments # << >> =>
                  /\ path_segments[i].entry_speed <= path_segments[i].max_reached_speed
                  /\ ExitSpeed(i) <= path_segments[i].max_reached_speed
                  /\ path_segments[i].max_reached_speed <= path_segments[i].nominal_speed

\* C30: a profile deleted by delete_current_profile and not added again by
\* add_profile is not in list_profiles(), and it is not in the file once the
\* file has been saved after the deletion, whatever save_to_file and
\* select_profile calls follow.
SavedSinceDeletion ==
    \/ profile_call.op = "save_to_file"
    \/ profile_call.op = "delete_profile" /\ profile_call.exc # "KeyError"

C30_DeletedStaysDeleted ==
    \A name \in deleted :
        /\ ~has_key(profileconnector._all_profiles, name)
        /\ SavedSinceDeletion => ~has_key(profileconnector.json_conf, name)

====
